---- MODULE Spec2Model ----
(***************************************************************************)
(* Model of the event processing engine: Pipeline.process with its         *)
(* per-stage retry loop, the ErrorHandler's recovery resolution and the    *)
(* hook emissions around stages and runs.                                  *)
(***************************************************************************)
EXTENDS Integers, Sequences, FiniteSets, TLC

\* ------------------------------------------------------------------ bounds
MaxStages == 2
MaxRetriesOpt == 2
MaxActions == 2
MaxCalls == 3
MaxListeners == 3
MaxCacheCalls == 3
MaxBots == 3

\* ------------------------------------------------------- program constants
DefaultMaxRetries == 3
DefaultMaxAttempts == 3
DefaultBackoffMs == 100

\* ------------------------------------------------------------ input domains
\* A stage function is identified by its declared name; "" is a function
\* without a name.
StageFns == {"check", ""}

StageName(stage) == IF stage = "" THEN "anonymous" ELSE stage

StageNames == {StageName(f) : f \in StageFns}

NoOpt == 0 - 1

NoStrategy == [strategy |-> "none", maxRetries |-> NoOpt]

Strategies ==
    {[strategy |-> s, maxRetries |-> NoOpt] : s \in {"stop", "skip", "fallback"}}
    \cup {[strategy |-> "retry", maxRetries |-> m] : m \in {NoOpt} \cup (1..MaxRetriesOpt)}

NoError == [kind |-> "none", code |-> "none"]

\* Errors a stage may throw: the constructor name and the code property.
ThrownErrors ==
    { [kind |-> "TypeError", code |-> "none"],
      [kind |-> "ValidationError", code |-> "none"] }

\* Each stage function fails with an error of its own: the named stage with a
\* TypeError, the function without a name with a ValidationError.
ErrorsOf(stage) ==
    {e \in ThrownErrors : e.kind = (IF stage = "" THEN "ValidationError" ELSE "TypeError")}

ErrorKinds == {"Error", "TypeError", "StageError", "ValidationError", "DatabaseError"}

\* What a registered kind handler does: the built-in method, or a custom
\* function that answers with an action, throws, or returns nothing.
CustomKinds == {"TypeError"}
CustomBehaviours == {"retry", "throw", "undefined"}

\* Stage results. Continue is a stage that returns undefined.
Continue == [stop |-> FALSE, action |-> "none", data |-> "none", reason |-> "none"]

Signals ==
    { Continue,
      [stop |-> TRUE,  action |-> "none",   data |-> "none", reason |-> "blocked"],
      [stop |-> FALSE, action |-> "notify", data |-> "d1",   reason |-> "none"],
      [stop |-> TRUE,  action |-> "notify", data |-> "d1",   reason |-> "spam"] }

NoStage == "none"

EmptyMetadata == [k \in {} |-> "none"]

\* The own properties of a stage result, as spread into result.metadata.
SignalFields(sig) ==
    [k \in {f \in {"action", "data", "reason"} : sig[f] # "none"}
          \cup (IF sig.stop THEN {"stop"} ELSE {}) |->
        IF k = "stop" THEN "true" ELSE sig[k]]

\* MergeMetadata keeping the old metadata only.
MergeMetadataKeepOld(a, b) == a

MergeMetadata(a, b) ==
    [k \in DOMAIN a \cup DOMAIN b |-> IF k \in DOMAIN b THEN b[k] ELSE a[k]]

VARIABLES
    stages,         \* Pipeline.stages
    hooks,          \* Pipeline.hooks: TRUE when a HookManager is attached
    errorHandler,   \* Pipeline.errorHandler: attached or not
    recoveryStrategies, \* ErrorHandler.recoveryStrategies
    errorHandlers,  \* ErrorHandler.errorHandlers
    errorStats,     \* ErrorHandler.errorStats
    pc,             \* position of the run inside process()
    idx,            \* position of the for-of iterator over stages
    attempt,        \* let attempt
    maxAttempts,    \* const maxAttempts
    pendingError,   \* the error caught by the catch clause
    result,         \* const result
    msgActions,     \* message._actions
    invoked,        \* history: stage invocations, in order
    emitted,        \* history: hook emissions, in order
    thrown,         \* what process() threw to its caller
    handlers,       \* ActionHandler.handlers: the action types with a handler
    dispatched,     \* history: the actions executed by the ActionHandler
    registered,     \* history: the last function given to registerErrorHandler, per kind
    ehLast,         \* history: the last direct call of ErrorHandler.handle
    ehLog,          \* history: the calls of handle since the last resetStats
    backoffMs,      \* ErrorHandler.recoveryStrategies[stageName].backoffMs
    waited,         \* history: the backoff delays waited inside handle(), in order
    runStages,      \* history: Pipeline.stages when the run began
    other,          \* the local state of a second run of process(), suspended at an await
    hookMap,        \* HookManager.hooks
    emitSt,         \* position of a call of HookManager.emit
    ahStats,        \* ActionHandler.stats
    ahLast,         \* history: the last call made on the ActionHandler
    ahLog,          \* history: handler executions and resetStats calls, in order
    store,          \* the keys held by the cache given to the CacheAdapter
    tableKeys,      \* CacheAdapter._tableKeys
    cacheApi,       \* which of del and clear the cache object has
    inflight,       \* the CacheAdapter calls that are at an await, per caller
    fresh,          \* history: keys of a table written to and not read since
    populated,      \* history: keys a read has cached, no step of a write since
    cacheLast,      \* history: the last step of a CacheAdapter call that is observed
    cacheCalls,     \* history: the number of CacheAdapter calls made
    bots,           \* BotManager.bots
    instances,      \* history: the bot instances created, with started and stopped
    mgrCalls        \* the BotManager calls that are at an await, per caller

vars == <<stages, hooks, errorHandler, recoveryStrategies, errorHandlers,
          errorStats, pc, idx, attempt, maxAttempts, pendingError, result,
          msgActions, invoked, emitted, thrown, handlers, dispatched,
          registered, ehLast, ehLog, backoffMs, waited, runStages, other,
          hookMap, emitSt, ahStats, ahLast, ahLog, store, tableKeys, cacheApi,
          inflight, fresh, populated, cacheLast, cacheCalls, bots, instances,
          mgrCalls>>

\* The CacheAdapter with its cache, and the BotManager.
caching == <<store, tableKeys, cacheApi, inflight, fresh, populated, cacheLast,
             cacheCalls>>
managing == <<bots, instances, mgrCalls>>
adapters == <<caching, managing>>

\* The pipeline, the ErrorHandler, the ActionHandler and the HookManager.
framework == <<stages, hooks, errorHandler, recoveryStrategies, errorHandlers,
               errorStats, pc, idx, attempt, maxAttempts, pendingError, result,
               msgActions, invoked, emitted, thrown, handlers, dispatched,
               registered, ehLast, ehLog, backoffMs, waited, runStages, other,
               hookMap, emitSt, ahStats, ahLast, ahLog>>

\* The HookManager and the ActionHandler taken alone, the backoff option and
\* the suspended run.
apart == <<backoffMs, other, hookMap, emitSt, ahStats, ahLast, ahLog>>

\* What a run of process() never touches.
outside == <<handlers, dispatched, registered, ehLast, ehLog>>

config == <<stages, hooks, errorHandler, recoveryStrategies, errorHandlers>>

\* ------------------------------------------------------------ ErrorHandler
\* Recovery answering stop where skip was meant.
RecoverySkipAsStop(a, r) == [action |-> IF a = "skip" THEN "stop" ELSE a, reason |-> r]

\* Recovery answering skip where stop was meant.
RecoveryStopAsSkip(a, r) == [action |-> IF a = "stop" THEN "skip" ELSE a, reason |-> r]

Recovery(a, r) == [action |-> a, reason |-> r]

\* A kind handler that throws, and one that returns undefined.
HandlerThrows == Recovery("THROW", "handler_failed")
HandlerUndefined == Recovery("UNDEFINED", "none")

\* handleStageError giving up one attempt early.
handleStageErrorEarlyStop(strategies, stageName, att) ==
    LET strategy == strategies[stageName]
        a == IF att = 0 THEN 1 ELSE att
        m == IF strategy.maxRetries = NoOpt \/ strategy.maxRetries = 0
             THEN DefaultMaxRetries ELSE strategy.maxRetries
    IN  CASE strategy = NoStrategy -> Recovery("stop", "no_strategy")
          [] strategy.strategy = "stop" -> Recovery("stop", "stage_error")
          [] strategy.strategy = "skip" -> Recovery("skip", "stage_error")
          [] strategy.strategy = "retry" ->
                IF a + 1 < m THEN Recovery("retry", "stage_error")
                         ELSE Recovery("stop", "max_retries")
          [] strategy.strategy = "fallback" -> Recovery("fallback", "stage_error")
          [] OTHER -> Recovery("stop", "unknown_strategy")

handleStageError(strategies, stageName, att) ==
    LET strategy == strategies[stageName]
        a == IF att = 0 THEN 1 ELSE att
        m == IF strategy.maxRetries = NoOpt \/ strategy.maxRetries = 0
             THEN DefaultMaxRetries ELSE strategy.maxRetries
    IN  CASE strategy = NoStrategy -> Recovery("stop", "no_strategy")
          [] strategy.strategy = "stop" -> Recovery("stop", "stage_error")
          [] strategy.strategy = "skip" -> Recovery("skip", "stage_error")
          [] strategy.strategy = "retry" ->
                IF a < m THEN Recovery("retry", "stage_error")
                         ELSE Recovery("stop", "max_retries")
          [] strategy.strategy = "fallback" -> Recovery("fallback", "stage_error")
          [] OTHER -> Recovery("stop", "unknown_strategy")

\* handleDatabaseError that skips whatever the code is.
handleDatabaseErrorSkips(error) == Recovery("skip", "db_error")

handleDatabaseError(error) ==
    IF error.code = "ECONNREFUSED" THEN Recovery("stop", "db_connection_failed")
    ELSE IF error.code = "QUERY_CANCELLED" THEN Recovery("skip", "db_timeout")
    ELSE Recovery("skip", "db_error")

handleValidationError == Recovery("skip", "validation_failed")

handleUnknownError == Recovery("stop", "unknown_error")

\* The handler table after construction: the three built-in methods.
DefaultErrorHandlers ==
    [k \in ErrorKinds |->
        CASE k = "StageError" -> "handleStageError"
          [] k = "DatabaseError" -> "handleDatabaseError"
          [] k = "ValidationError" -> "handleValidationError"
          [] OTHER -> "unregistered"]

CallHandler(h, strategies, error, stageName, att) ==
    CASE h = "handleStageError" -> handleStageError(strategies, stageName, att)
      [] h = "handleDatabaseError" -> handleDatabaseError(error)
      [] h = "handleValidationError" -> handleValidationError
      [] h = "unregistered" -> handleUnknownError
      [] h = "throw" -> HandlerThrows
      [] h = "undefined" -> HandlerUndefined
      [] OTHER -> Recovery(h, "custom")

\* Dispatch asking the kind table first and the stage's strategy last.
DispatchKindFirst(strategies, table, error, stageName) ==
    IF table[error.kind] # "unregistered"
    THEN [via |-> "kind", fn |-> table[error.kind]]
    ELSE IF strategies[stageName] # NoStrategy
    THEN [via |-> "strategy", fn |-> "handleStageError"]
    ELSE [via |-> "kind", fn |-> "unregistered"]

\* The function handle() calls: handleStageError when the stage has a
\* strategy, else errorHandlers[errorType] || handleUnknownError.
Dispatch(strategies, table, error, stageName) ==
    IF strategies[stageName] # NoStrategy
    THEN [via |-> "strategy", fn |-> "handleStageError"]
    ELSE [via |-> "kind", fn |-> table[error.kind]]

\* ErrorHandler.handle: the recovery it resolves to (statistics apart).
handle(strategies, table, error, stageName, att) ==
    CallHandler(Dispatch(strategies, table, error, stageName).fn,
                strategies, error, stageName, att)

\* registerErrorHandler that leaves a kind alone once it has a handler.
registerErrorHandlerOnce(table, errorType, fn) ==
    IF table[errorType] = "unregistered" THEN [table EXCEPT ![errorType] = fn] ELSE table

\* this.errorHandlers[errorType] = handler
registerErrorHandler(table, errorType, fn) == [table EXCEPT ![errorType] = fn]

\* this.recoveryStrategies[stageName] = { strategy, ...options }
registerRecoveryStrategy(strategies, stageName, strategy) ==
    [strategies EXCEPT ![stageName] = strategy]

\* updateStats that does not count by stage.
updateStatsNoStage(stats, error, stageName) ==
    [total |-> stats.total + 1,
     byType |-> [stats.byType EXCEPT ![error.kind] = @ + 1],
     byStage |-> stats.byStage]

\* const backoff = strategy.backoffMs || 100
BackoffOf(b) == IF b = NoOpt \/ b = 0 THEN DefaultBackoffMs ELSE b

\* await new Promise(r => setTimeout(r, backoff * attempt)) in the retry
\* branch of handleStageError: the delays waited so far.
Waited(log, strategies, backoffs, table, error, stageName, att) ==
    IF /\ Dispatch(strategies, table, error, stageName).fn = "handleStageError"
       /\ strategies[stageName].strategy = "retry"
       /\ handleStageError(strategies, stageName, att).action = "retry"
    THEN Append(log, [stage |-> stageName, attempt |-> att,
                      ms |-> BackoffOf(backoffs[stageName]) * (IF att = 0 THEN 1 ELSE att)])
    ELSE log

updateStats(stats, error, stageName) ==
    [total |-> stats.total + 1,
     byType |-> [stats.byType EXCEPT ![error.kind] = @ + 1],
     byStage |-> [stats.byStage EXCEPT ![stageName] = @ + 1]]

ZeroStats ==
    [total |-> 0, byType |-> [k \in ErrorKinds |-> 0],
     byStage |-> [n \in StageNames |-> 0]]

NoCall ==
    [error |-> NoError, stage |-> NoStage, attempt |-> 0, via |-> "none",
     fn |-> "none", out |-> Recovery("none", "none")]

NoneRegistered == [k \in ErrorKinds |-> "none"]

\* ---------------------------------------------------------------- Pipeline
NewResult ==
    [stop |-> FALSE, metadata |-> EmptyMetadata, actions |-> <<>>,
     error |-> NoError, errorStage |-> NoStage]

\* message._actions not set: a list no run can build.
Absent == <<[action |-> "absent", data |-> "none"]>>

\* Emit that announces a failed stage as after:stage.
EmitErrorAsAfter(log, hookName, stageName, payload) ==
    IF hooks
    THEN Append(log, [hook |-> IF hookName = "error:stage" THEN "after:stage" ELSE hookName,
                      stage |-> stageName, payload |-> payload])
    ELSE log

\* Emit that announces a stage before its first attempt only.
EmitBeforeFirstAttempt(log, hookName, stageName, payload) ==
    IF hooks /\ ~(hookName = "before:stage" /\ attempt > 0)
    THEN Append(log, [hook |-> hookName, stage |-> stageName, payload |-> payload])
    ELSE log

\* if (this.hooks) await this.hooks.emit(hookName, payload)
Emit(log, hookName, stageName, payload) ==
    IF hooks
    THEN Append(log, [hook |-> hookName, stage |-> stageName, payload |-> payload])
    ELSE log

\* maxAttempts that ignores the registered strategy.
MaxAttemptsOfOne(stageName) == 1

\* const maxAttempts = this.errorHandler?.recoveryStrategies[stageName]?.maxRetries ?? 3
MaxAttemptsOf(stageName) ==
    IF errorHandler /\ recoveryStrategies[stageName] # NoStrategy
          /\ recoveryStrategies[stageName].maxRetries # NoOpt
    THEN recoveryStrategies[stageName].maxRetries
    ELSE DefaultMaxAttempts

\* Exhausted that allows one attempt more.
ExhaustedLate(att, max) == att >= max + 1

\* attempt < maxAttempts fails: the retry the handler asked for is refused.
Exhausted(att, max) == att >= max

\* Stopped that records the error and lets the run go on.
StoppedGoesOn(res, error, stageName) ==
    [res EXCEPT !.error = error, !.errorStage = stageName]

\* result.stop = true; result.error = error; result.errorStage = stageName
Stopped(res, error, stageName) ==
    [res EXCEPT !.stop = TRUE, !.error = error, !.errorStage = stageName]

\* History only: notes on the last invocation how its error was resolved.
Resolved(log, action) == [log EXCEPT ![Len(log)].rec = action]

\* AfterAttempt leaving the for loop after every completed stage.
AfterAttemptAlwaysBreak(complete, stop) ==
    IF ~complete THEN "try" ELSE "afterPipeline"

\* AfterAttempt that leaves a stage to be retried for the next stage.
AfterAttemptNoRetry(complete, stop) ==
    IF stop THEN "afterPipeline" ELSE "forNext"

\* AfterAttempt without the break on result.stop.
AfterAttemptNoBreak(complete, stop) ==
    IF ~complete THEN "try" ELSE "forNext"

\* Where the run goes once the while loop is left or repeated.
AfterAttempt(complete, stop) ==
    IF ~complete THEN "try"
    ELSE IF stop THEN "afterPipeline" ELSE "forNext"

\* The local state of a run of process() that has not begun.
IdleRun ==
    [pc |-> "idle", idx |-> 0, attempt |-> 0, maxAttempts |-> 0,
     pendingError |-> NoError, result |-> NewResult, msgActions |-> <<>>,
     invoked |-> <<>>, thrown |-> "none", runStages |-> <<>>]

HookNames == {"ev", "ev2"}

\* new Map(): no listener on any hook
NoListeners == [h \in HookNames |-> <<>>]

NotEmitting ==
    [pc |-> "idle", name |-> "none", callbacks |-> <<>>, i |-> 0, attached |-> FALSE,
     atStart |-> <<>>, called |-> <<>>]

ActionTypes == {"notify", "manual"}

\* this.handlers = {}
NoHandlers == [a \in ActionTypes |-> "none"]

\* this.stats = { total: 0, byAction: {}, failed: 0 }
ZeroActionStats == [total |-> 0, byAction |-> [a \in ActionTypes |-> 0], failed |-> 0]

NoActionCall ==
    [call |-> "none", name |-> "none", arg |-> "none", records |-> <<>>,
     table |-> NoHandlers, ret |-> "none", ran |-> <<>>]

\* No backoffMs option given for any stage.
NoBackoff == [n \in StageNames |-> NoOpt]

\* The callers whose calls of an adapter may overlap at the awaits.
Callers == {"a", "b"}

Tables == {"users", "posts"}
Ids == {"1"}
Sqls == {"SELECT 1"}

\* const key = `${table}:all`
FindAllKey(table) == <<table, "all">>

\* const key = `${table}:id:${id}`
FindByIdKey(table, id) == <<table, "id", id>>

\* const key = `query:${sql}:${JSON.stringify(params)}`, without params
QueryKey(sql) == <<"query", sql, "[]">>

CacheKeys ==
    {FindAllKey(t) : t \in Tables} \cup {FindByIdKey(t, i) : t \in Tables, i \in Ids}
    \cup {QueryKey(q) : q \in Sqls}

\* The keys findAll and findById build for a table.
KeysOf(table) == {k \in CacheKeys : k[1] = table}

\* this._tableKeys = new Map(): no key tracked for any table
NoTableKeys == [t \in Tables |-> {}]

\* A cache object with get, set, del and clear.
FullCache == [del |-> TRUE, clear |-> TRUE]

\* "Must have get(key), set(key, value, ttl). Optionally del(key) and clear()"
CacheApis == [del : BOOLEAN, clear : BOOLEAN]

NoCacheCall == [kind |-> "none", table |-> "none", key |-> <<>>, pc |-> "idle", arg |-> "none"]

NoCacheStep ==
    [kind |-> "none", table |-> "none", key |-> <<>>, hit |-> FALSE, wasFresh |-> FALSE,
     wasPopulated |-> FALSE, before |-> {}, after |-> {}, tracked |-> NoTableKeys,
     arg |-> "none", ret |-> "none"]

ClientIds == {"c1", "c2"}

\* this.bots.get(clientId) is undefined
NoEntry == [bot |-> 0, status |-> "not found"]

NoMgrCall == [op |-> "none", client |-> "none", pc |-> "idle", then |-> "none"]

\* Nothing has run yet: no run of process(), no call of handle().
Idle ==
    /\ store = {}
    /\ tableKeys = NoTableKeys
    /\ inflight = [c \in Callers |-> NoCacheCall]
    /\ fresh = {}
    /\ populated = {}
    /\ cacheLast = NoCacheStep
    /\ cacheCalls = 0
    /\ bots = [c \in ClientIds |-> NoEntry]
    /\ instances = <<>>
    /\ mgrCalls = [c \in Callers |-> NoMgrCall]
    /\ waited = <<>>
    /\ runStages = <<>>
    /\ other = IdleRun
    /\ hookMap = NoListeners
    /\ emitSt = NotEmitting
    /\ ahStats = ZeroActionStats
    /\ ahLast = NoActionCall
    /\ ahLog = <<>>
    /\ errorStats = ZeroStats
    /\ pc = "idle"
    /\ idx = 0
    /\ attempt = 0
    /\ maxAttempts = 0
    /\ pendingError = NoError
    /\ result = NewResult
    /\ invoked = <<>>
    /\ emitted = <<>>
    /\ thrown = "none"
    /\ dispatched = <<>>
    /\ ehLast = NoCall
    /\ ehLog = <<>>

\* A pipeline with its stages, hooks and error handler set up.
Configured ==
    /\ stages \in UNION {[1..n -> StageFns] : n \in 1..MaxStages}
    /\ hooks \in BOOLEAN
    /\ errorHandler \in BOOLEAN
    /\ recoveryStrategies \in [StageNames -> Strategies \cup {NoStrategy}]
    /\ errorHandlers \in
          {[k \in ErrorKinds |-> IF k \in CustomKinds THEN c ELSE DefaultErrorHandlers[k]] :
              c \in CustomBehaviours \cup {"unregistered"}}
    \* strategies are registered for stages of the pipeline only
    /\ \A n \in StageNames :
          (\A i \in DOMAIN stages : StageName(stages[i]) # n) =>
              recoveryStrategies[n] = NoStrategy
    /\ (~errorHandler =>
          /\ recoveryStrategies = [n \in StageNames |-> NoStrategy]
          /\ errorHandlers = DefaultErrorHandlers)
    \* a custom handler is registered where handle() can reach it: for a kind
    \* thrown by a stage that no strategy answers for
    /\ (errorHandlers # DefaultErrorHandlers =>
          \E i \in DOMAIN stages :
              /\ recoveryStrategies[StageName(stages[i])] = NoStrategy
              /\ \E e \in ErrorsOf(stages[i]) : e.kind \in CustomKinds)
    /\ registered =
          [k \in ErrorKinds |->
              IF errorHandlers[k] = DefaultErrorHandlers[k] THEN "none" ELSE errorHandlers[k]]
    /\ handlers = NoHandlers
    /\ msgActions \in {Absent, <<>>}
    /\ cacheApi = FullCache
    /\ Idle

Init == Configured /\ backoffMs = NoBackoff

\* process(): the result object, message._actions, before:pipeline.
Process ==
    /\ pc = "idle"
    /\ result' = NewResult
    /\ msgActions' = IF msgActions = Absent THEN <<>> ELSE msgActions
    /\ emitted' = Emit(emitted, "before:pipeline", NoStage, "none")
    /\ idx' = 0
    /\ pc' = "forNext"
    /\ runStages' = stages
    /\ UNCHANGED <<adapters, config, apart, waited, outside, errorStats, attempt, maxAttempts,
                   pendingError, invoked, thrown>>

\* for (const stage of this.stages): the iterator's next step.
ForNext ==
    /\ pc = "forNext"
    /\ IF idx < Len(stages)
       THEN /\ idx' = idx + 1
            /\ maxAttempts' = MaxAttemptsOf(StageName(stages[idx + 1]))
            /\ attempt' = 0
            /\ pc' = "try"
       ELSE /\ pc' = "afterPipeline"
            /\ UNCHANGED <<idx, maxAttempts, attempt>>
    /\ UNCHANGED <<adapters, config, apart, runStages, waited, outside, errorStats, pendingError, result, msgActions,
                   invoked, emitted, thrown>>

\* CollectAction that forgets the declared action.
CollectActionNever(list, sig, stageName) == list

\* CollectAction that pushes the record twice.
CollectActionTwice(list, sig, stageName) ==
    IF sig.action # "none"
    THEN list \o << [action |-> sig.action, data |-> sig.data, stage |-> stageName],
                    [action |-> sig.action, data |-> sig.data, stage |-> stageName] >>
    ELSE list

\* if (stageResult?.action) push { action, data, stage } (timestamp left out)
CollectAction(list, sig, stageName) ==
    IF sig.action # "none"
    THEN Append(list, [action |-> sig.action, data |-> sig.data, stage |-> stageName])
    ELSE list

\* The try block with a stage that returns sig, which process() reads as
\* seen once the after:stage listeners have been given the same object.
TryReturns(sig, seen) ==
    /\ pc = "try"
    /\ LET stageName == StageName(stages[idx])
           stop == result.stop \/ seen.stop
       IN  /\ invoked' = Append(invoked, [pos |-> idx, out |-> "returned", sig |-> sig,
                                        err |-> NoError, rec |-> "none"])
           /\ msgActions' = CollectAction(msgActions, sig, stageName)
           /\ emitted' = Emit(Emit(emitted, "before:stage", stageName, "none"),
                              "after:stage", stageName, sig)
           /\ result' = [result EXCEPT
                 !.actions = CollectAction(@, sig, stageName),
                 !.stop = stop,
                 !.metadata = IF seen.stop THEN MergeMetadata(@, SignalFields(seen)) ELSE @]
           /\ pc' = AfterAttempt(TRUE, stop)
    /\ UNCHANGED <<adapters, config, apart, runStages, waited, outside, errorStats, idx, attempt, maxAttempts, pendingError, thrown>>

\* The try block with a stage that returns sig, no listener touching it.
StageReturns(sig) == TryReturns(sig, sig)

\* What an after:stage listener does with its payload { message, stageName,
\* result: stageResult }: it returns, it throws, or it sets result.stop.
ObserverBehaviours == {"returns", "throws", "stops"}

\* The stage result after the listener ran; setting a property of undefined
\* throws inside the listener and emit swallows it.
ListenerSees(does, sig) ==
    IF does = "stops" /\ sig # Continue THEN [sig EXCEPT !.stop = TRUE] ELSE sig

\* The try block with an after:stage listener attached.
StageReturnsObserved(sig, does) ==
    /\ hooks
    /\ TryReturns(sig, ListenerSees(does, sig))

\* The try block with a stage that throws error, up to the error:stage hook.
StageThrows(error) ==
    /\ pc = "try"
    /\ error \in ErrorsOf(stages[idx])
    /\ LET stageName == StageName(stages[idx])
       IN  /\ invoked' = Append(invoked, [pos |-> idx, out |-> "threw", sig |-> Continue,
                                        err |-> error, rec |-> "pending"])
           /\ emitted' = Emit(Emit(emitted, "before:stage", stageName, "none"),
                              "error:stage", stageName, error)
    /\ attempt' = attempt + 1
    /\ pendingError' = error
    /\ pc' = "catch"
    /\ UNCHANGED <<adapters, config, apart, runStages, waited, outside, errorStats, idx, maxAttempts, result, msgActions, thrown>>

\* CatchDefault that stops the run on an unhandled stage error.
CatchDefaultStops ==
    /\ pc = "catch"
    /\ ~errorHandler
    /\ result' = [result EXCEPT !.stop = TRUE, !.error = pendingError,
                                !.errorStage = StageName(stages[idx])]
    /\ pc' = AfterAttempt(TRUE, TRUE)
    /\ pendingError' = NoError
    /\ invoked' = Resolved(invoked, "default")
    /\ UNCHANGED <<adapters, config, apart, runStages, waited, outside, errorStats, idx, attempt, maxAttempts,
                   msgActions, emitted, thrown>>

\* catch, no error handler attached: skip to the next stage.
CatchDefault ==
    /\ pc = "catch"
    /\ ~errorHandler
    /\ pc' = AfterAttempt(TRUE, result.stop)
    /\ pendingError' = NoError
    /\ invoked' = Resolved(invoked, "default")
    /\ UNCHANGED <<adapters, config, apart, runStages, waited, outside, errorStats, idx, attempt, maxAttempts,
                   result, msgActions, emitted, thrown>>

\* catch, error handler attached: handle() and the branch on recovery.action.
CatchHandle ==
    /\ pc = "catch"
    /\ errorHandler
    /\ LET stageName == StageName(stages[idx])
           recovery == handle(recoveryStrategies, errorHandlers, pendingError,
                              stageName, attempt)
           stopped == Stopped(result, pendingError, stageName)
       IN  /\ errorStats' = updateStats(errorStats, pendingError, stageName)
           /\ invoked' = Resolved(invoked, recovery.action)
           /\ CASE recovery = HandlerThrows ->
                     /\ thrown' = "handlerError"
                     /\ pc' = "threw"
                     /\ UNCHANGED result
                [] recovery = HandlerUndefined ->
                     /\ thrown' = "TypeError"
                     /\ pc' = "threw"
                     /\ UNCHANGED result
                [] recovery.action = "stop" ->
                     /\ result' = stopped
                     /\ pc' = AfterAttempt(TRUE, TRUE)
                     /\ UNCHANGED thrown
                [] recovery.action = "skip" ->
                     /\ pc' = AfterAttempt(TRUE, result.stop)
                     /\ UNCHANGED <<result, thrown>>
                [] recovery.action = "retry" ->
                     /\ IF Exhausted(attempt, maxAttempts)
                        THEN /\ result' = stopped
                             /\ pc' = AfterAttempt(TRUE, TRUE)
                        ELSE /\ pc' = AfterAttempt(FALSE, result.stop)
                             /\ UNCHANGED result
                     /\ UNCHANGED thrown
                [] OTHER ->
                     /\ pc' = AfterAttempt(TRUE, result.stop)
                     /\ UNCHANGED <<result, thrown>>
    /\ pendingError' = NoError
    /\ waited' = Waited(waited, recoveryStrategies, backoffMs, errorHandlers,
                        pendingError, StageName(stages[idx]), attempt)
    /\ UNCHANGED <<adapters, config, apart, runStages, outside, idx, attempt, maxAttempts,
                   msgActions, emitted>>

\* after:pipeline and the return of the result.
AfterPipeline ==
    /\ pc = "afterPipeline"
    /\ emitted' = Emit(emitted, "after:pipeline", NoStage, result)
    /\ pc' = "done"
    /\ UNCHANGED <<adapters, config, apart, runStages, waited, outside, errorStats, idx, attempt, maxAttempts, pendingError,
                   result, msgActions, invoked, thrown>>

Next ==
    \/ Process
    \/ ForNext
    \/ \E sig \in Signals : StageReturns(sig)
    \/ \E error \in ThrownErrors : StageThrows(error)
    \/ CatchDefault
    \/ CatchHandle
    \/ AfterPipeline

Spec == Init /\ [][Next]_vars

\* The backoffMs option of registerRecoveryStrategy: absent, 0 or a delay.
BackoffOptions == {NoOpt, 0, 50}

\* A pipeline whose retry strategies were registered with a backoffMs option.
InitBackoff ==
    /\ Configured
    /\ ~hooks
    /\ errorHandlers = DefaultErrorHandlers
    /\ backoffMs \in [StageNames -> BackoffOptions]
    /\ \A n \in StageNames :
          recoveryStrategies[n].strategy # "retry" => backoffMs[n] = NoOpt

SpecBackoff == InitBackoff /\ [][Next]_vars

\* A run goes on as long as every stage, listener and error handler it
\* awaits returns or throws.
SpecLive == Init /\ [][Next]_vars /\ WF_vars(Next)

\* The locals of the run of process() that is executing.
Running ==
    [pc |-> pc, idx |-> idx, attempt |-> attempt, maxAttempts |-> maxAttempts,
     pendingError |-> pendingError, result |-> result, msgActions |-> msgActions,
     invoked |-> invoked, thrown |-> thrown, runStages |-> runStages]

\* Switch with one attempt counter for the two runs.
SwitchSharedAttempt ==
    /\ pc \in {"idle", "try", "catch", "done"}
    /\ other' = Running
    /\ pc' = other.pc
    /\ idx' = other.idx
    /\ attempt' = attempt
    /\ maxAttempts' = other.maxAttempts
    /\ pendingError' = other.pendingError
    /\ result' = other.result
    /\ msgActions' = other.msgActions
    /\ invoked' = other.invoked
    /\ thrown' = other.thrown
    /\ runStages' = other.runStages
    /\ UNCHANGED <<adapters, config, outside, errorStats, emitted, backoffMs, waited, hookMap,
                   emitSt, ahStats, ahLast, ahLog>>

\* The run of process() that is executing is suspended at an await (the
\* stage call, the error handler call) or has not begun or has returned, and
\* the run for another event goes on: each run has its own locals and
\* message, the pipeline and the ErrorHandler are the same.
Switch ==
    /\ pc \in {"idle", "try", "catch", "done"}
    /\ other' = Running
    /\ pc' = other.pc
    /\ idx' = other.idx
    /\ attempt' = other.attempt
    /\ maxAttempts' = other.maxAttempts
    /\ pendingError' = other.pendingError
    /\ result' = other.result
    /\ msgActions' = other.msgActions
    /\ invoked' = other.invoked
    /\ thrown' = other.thrown
    /\ runStages' = other.runStages
    /\ UNCHANGED <<adapters, config, outside, errorStats, emitted, backoffMs, waited, hookMap,
                   emitSt, ahStats, ahLast, ahLog>>

\* Two events handled by one pipeline without HookManager.
InitConcurrent ==
    /\ Init
    /\ ~hooks
    /\ errorHandlers = DefaultErrorHandlers
    /\ msgActions = <<>>
    /\ stages \in {<<"check">>, <<"check", "">>}
    /\ recoveryStrategies["anonymous"] = NoStrategy

NextConcurrent == Next \/ Switch

SpecConcurrent == InitConcurrent /\ [][NextConcurrent]_vars

\* use(stage): this.stages.push(stage), at any time.
Use(stage) ==
    /\ Len(stages) < MaxStages
    /\ stages' = Append(stages, stage)
    /\ UNCHANGED <<adapters, hooks, errorHandler, recoveryStrategies, errorHandlers, apart,
                   outside, runStages, waited, errorStats, pc, idx, attempt,
                   maxAttempts, pendingError, result, msgActions, invoked, emitted,
                   thrown>>

NextUse ==
    \/ Next
    \/ \E stage \in StageFns : Use(stage)

\* A pipeline to which stages are added before and during a run.
SpecUse == Init /\ [][NextUse]_vars

\* A pipeline with a HookManager whose after:stage listener does any of the
\* three things at each emission.
InitListeners == Init /\ hooks

NextListeners ==
    \/ Next
    \/ \E sig \in Signals, does \in ObserverBehaviours : StageReturnsObserved(sig, does)

SpecListeners == InitListeners /\ [][NextListeners]_vars

\* ------------------------------------------- stages acting on the event, engine
\* addAction(message, action, data): timestamp left out
addAction(list, action, data) ==
    Append(IF list = Absent THEN <<>> ELSE list, [action |-> action, data |-> data])

\* clearActions(message)
clearActions(list) == <<>>

\* const handler = this.handlers[actionType]; "none" when there is none,
\* also for an absent action type.
HandlerOf(table, actionType) ==
    IF actionType \in DOMAIN table THEN table[actionType] ELSE "none"

RECURSIVE ExecutionsUntilThrow(_, _)
\* Executions that gives up at the first handler that throws.
ExecutionsUntilThrow(table, actions) ==
    IF actions = <<>> THEN <<>>
    ELSE LET a == Head(actions)
             h == HandlerOf(table, a.action)
             e == [action |-> a.action, data |-> a.data, outcome |-> h]
         IN  IF h = "none" THEN ExecutionsUntilThrow(table, Tail(actions))
             ELSE IF h = "boom" THEN <<e>>
             ELSE <<e>> \o ExecutionsUntilThrow(table, Tail(actions))

RECURSIVE Executions(_, _)
\* The loop of handleAll: handle() on each record in list order, a throw of
\* handle() caught and logged. The handler executions it makes, in order.
Executions(table, actions) ==
    IF actions = <<>> THEN <<>>
    ELSE LET a == Head(actions)
             h == HandlerOf(table, a.action)
             e == [action |-> a.action, data |-> a.data, outcome |-> h]
         IN  (IF h = "none" THEN <<>> ELSE <<e>>) \o Executions(table, Tail(actions))

\* ActionHandler.handleAll: each action with a registered handler is executed,
\* in order; an action without a handler is passed over.
handleAll(table, done, actions) == done \o Executions(table, actions)

\* actionStats that counts a failed execution as handled.
actionStatsCountsFailed(stats, e) ==
    IF e.outcome = "ok"
    THEN [stats EXCEPT !.total = @ + 1, !.byAction[e.action] = @ + 1]
    ELSE [stats EXCEPT !.total = @ + 1, !.failed = @ + 1]

\* handle(): this.updateStats(actionType) after the handler completed,
\* this.stats.failed++ when it threw.
actionStats(stats, e) ==
    IF e.outcome = "ok"
    THEN [stats EXCEPT !.total = @ + 1, !.byAction[e.action] = @ + 1]
    ELSE [stats EXCEPT !.failed = @ + 1]

RECURSIVE StatsAfter(_, _)
\* The statistics after the executions es.
StatsAfter(stats, es) ==
    IF es = <<>> THEN stats ELSE StatsAfter(actionStats(stats, Head(es)), Tail(es))

\* The body of the running stage calls addAction on the event.
StageAddsAction ==
    /\ pc = "try"
    /\ Len(msgActions) < MaxActions
    /\ msgActions' = addAction(msgActions, "manual", "d1")
    /\ UNCHANGED <<adapters, config, apart, runStages, waited, outside, errorStats, pc, idx, attempt, maxAttempts,
                   pendingError, result, invoked, emitted, thrown>>

\* The body of the running stage calls clearActions on the event.
StageClearsActions ==
    /\ pc = "try"
    /\ msgActions # <<>>
    /\ msgActions' = clearActions(msgActions)
    /\ UNCHANGED <<adapters, config, apart, runStages, waited, outside, errorStats, pc, idx, attempt, maxAttempts,
                   pendingError, result, invoked, emitted, thrown>>

\* The try block with the stage made by createActionProcessorMiddleware: an
\* arrow function without a name that hands message._actions to handleAll
\* and returns undefined.
ActionProcessor ==
    /\ pc = "try"
    /\ stages[idx] = ""
    /\ dispatched' = IF msgActions = <<>> THEN dispatched
                     ELSE handleAll(handlers, dispatched, msgActions)
    /\ ahStats' = StatsAfter(ahStats, Executions(handlers, msgActions))
    /\ ahLog' = ahLog \o Executions(handlers, msgActions)
    /\ invoked' = Append(invoked, [pos |-> idx, out |-> "returned", sig |-> Continue,
                                  err |-> NoError, rec |-> "none"])
    /\ emitted' = Emit(Emit(emitted, "before:stage", "anonymous", "none"),
                       "after:stage", "anonymous", Continue)
    /\ pc' = AfterAttempt(TRUE, result.stop)
    /\ UNCHANGED <<adapters, config, backoffMs, other, hookMap, emitSt, ahLast, runStages,
                   waited, handlers, registered, ehLast, ehLog, errorStats, idx,
                   attempt, maxAttempts, pendingError, result, msgActions, thrown>>

\* BotEngine._handleMessage after await this.pipeline.process(message, context):
\* the result is dropped and the handler returns.
HandleMessageReturns ==
    /\ pc = "done"
    /\ pc' = "handled"
    /\ UNCHANGED <<adapters, config, apart, runStages, waited, outside, errorStats, idx, attempt, maxAttempts,
                   pendingError, result, msgActions, invoked, emitted, thrown>>

\* An engine whose ErrorHandler, if any, is as constructed, and an
\* ActionHandler with handlers for some of the action types.
InitEngine ==
    /\ stages \in UNION {[1..n -> StageFns] : n \in 1..MaxStages}
    /\ hooks \in BOOLEAN
    /\ errorHandler \in BOOLEAN
    /\ recoveryStrategies = [n \in StageNames |-> NoStrategy]
    /\ errorHandlers = DefaultErrorHandlers
    /\ registered = NoneRegistered
    /\ handlers \in [ActionTypes -> {"none", "ok", "boom"}]
    /\ backoffMs = NoBackoff
    /\ msgActions \in {Absent, <<>>}
    /\ cacheApi = FullCache
    /\ Idle

NextEngine ==
    \/ Next
    \/ StageAddsAction
    \/ StageClearsActions
    \/ ActionProcessor
    \/ HandleMessageReturns

SpecEngine == InitEngine /\ [][NextEngine]_vars

\* The stage that is running is the one made by
\* createActionProcessorMiddleware.
AtProcessor == pc = "try" /\ stages[idx] = ""

\* pipeline.use(createActionProcessorMiddleware(actionHandler)) as the last
\* stage, after named stages.
InitProcessor ==
    /\ InitEngine
    /\ stages[Len(stages)] = ""
    /\ \A i \in 1..(Len(stages) - 1) : stages[i] # ""

\* An earlier stage returns, throws, or calls addAction.
EarlierReturns(sig) == ~AtProcessor /\ StageReturns(sig)
EarlierThrows(error) == ~AtProcessor /\ StageThrows(error)
EarlierAddsAction == ~AtProcessor /\ StageAddsAction

\* A run of that pipeline: the earlier stages return, throw or call
\* addAction, the last stage is the action processor.
NextProcessor ==
    \/ Process
    \/ ForNext
    \/ \E sig \in Signals : EarlierReturns(sig)
    \/ \E error \in ThrownErrors : EarlierThrows(error)
    \/ EarlierAddsAction
    \/ ActionProcessor
    \/ CatchDefault
    \/ CatchHandle
    \/ AfterPipeline

SpecProcessor == InitProcessor /\ [][NextProcessor]_vars

\* ------------------------------------------------- ErrorHandler used directly
\* Errors given to handle(): every kind, and a DatabaseError with each code.
HandledErrors ==
    {[kind |-> k, code |-> "none"] : k \in ErrorKinds}
    \cup {[kind |-> "DatabaseError", code |-> c] :
             c \in {"ECONNREFUSED", "QUERY_CANCELLED", "ETIMEDOUT"}}

\* context.attempt; 0 is a context without attempt.
AttemptArgs == 0..(DefaultMaxRetries + 1)

\* Kinds given to registerErrorHandler: one without and one with a built-in.
RegistrableKinds == {"TypeError", "ValidationError"}

\* Strategies given to registerRecoveryStrategy; maxRetries may be 0.
StrategyOptions == Strategies \cup {[strategy |-> "retry", maxRetries |-> 0]}

ResetMark == [kind |-> "resetStats", stage |-> NoStage]

RegisterErrorHandler(errorType, fn) ==
    /\ errorHandlers' = registerErrorHandler(errorHandlers, errorType, fn)
    /\ registered' = [registered EXCEPT ![errorType] = fn]
    /\ UNCHANGED <<adapters, apart, runStages, waited, stages, hooks, errorHandler, recoveryStrategies, errorStats, pc,
                   idx, attempt, maxAttempts, pendingError, result, msgActions,
                   invoked, emitted, thrown, handlers, dispatched, ehLast, ehLog>>

RegisterRecoveryStrategy(stageName, strategy) ==
    /\ recoveryStrategies' =
          registerRecoveryStrategy(recoveryStrategies, stageName, strategy)
    /\ UNCHANGED <<adapters, apart, runStages, waited, stages, hooks, errorHandler, errorHandlers, errorStats, pc,
                   idx, attempt, maxAttempts, pendingError, result, msgActions,
                   invoked, emitted, thrown, outside>>

\* A call of handle(error, stageName, {attempt}) from outside a run.
EHHandle(error, stageName, att) ==
    /\ Len(ehLog) < MaxCalls
    /\ errorStats' = updateStats(errorStats, error, stageName)
    /\ ehLog' = Append(ehLog, [kind |-> error.kind, stage |-> stageName])
    /\ ehLast' =
          LET d == Dispatch(recoveryStrategies, errorHandlers, error, stageName)
          IN  [error |-> error, stage |-> stageName, attempt |-> att,
               via |-> d.via, fn |-> d.fn,
               out |-> handle(recoveryStrategies, errorHandlers, error, stageName, att)]
    /\ waited' = Waited(waited, recoveryStrategies, backoffMs, errorHandlers,
                        error, stageName, att)
    /\ UNCHANGED <<adapters, config, apart, runStages, pc, idx, attempt, maxAttempts,
                   pendingError, result, msgActions, invoked, emitted, thrown,
                   handlers, dispatched, registered>>

ResetStats ==
    /\ Len(ehLog) < MaxCalls
    /\ errorStats' = ZeroStats
    /\ ehLog' = Append(ehLog, ResetMark)
    /\ UNCHANGED <<adapters, config, apart, runStages, waited, pc, idx, attempt, maxAttempts, pendingError, result,
                   msgActions, invoked, emitted, thrown, handlers, dispatched,
                   registered, ehLast>>

\* An ErrorHandler as constructed, not attached to a running pipeline.
\* An ErrorHandler, an ActionHandler, a HookManager, a CacheAdapter or a
\* BotManager taken alone, beside a pipeline that does not run.
Standalone ==
    /\ stages = <<"check">>
    /\ hooks = FALSE
    /\ errorHandler = TRUE
    /\ recoveryStrategies = [n \in StageNames |-> NoStrategy]
    /\ errorHandlers = DefaultErrorHandlers
    /\ registered = NoneRegistered
    /\ handlers = NoHandlers
    /\ backoffMs = NoBackoff
    /\ msgActions = Absent
    /\ Idle

InitEH == Standalone /\ cacheApi = FullCache

\* The handler is configured, then handle() is called once.
NextEH ==
    \/ /\ ehLast = NoCall
       /\ \E errorType \in RegistrableKinds, fn \in CustomBehaviours :
             RegisterErrorHandler(errorType, fn)
    \/ /\ ehLast = NoCall
       /\ \E stageName \in StageNames, strategy \in StrategyOptions :
             RegisterRecoveryStrategy(stageName, strategy)
    \/ /\ ehLast = NoCall
       /\ \E error \in HandledErrors, stageName \in StageNames, att \in AttemptArgs :
             EHHandle(error, stageName, att)

SpecEH == InitEH /\ [][NextEH]_vars

\* handle() and resetStats() called in any order on the constructed handler.
NextStats ==
    \/ \E error \in HandledErrors, stageName \in StageNames : EHHandle(error, stageName, 1)
    \/ ResetStats

SpecStats == InitEH /\ [][NextStats]_vars

\* ---------------------------------------------------- ActionHandler alone
\* What is given to register as handler: a function that completes, one that
\* throws, or something that is not a function.
RegisterArgs == {"ok", "boom", "notFunction"}

\* The action type given to handle; "none" is a null or absent type.
HandleArgs == ActionTypes \cup {"none"}

\* The lists given to handleAll.
RecordLists ==
    UNION {[1..n -> {[action |-> a, data |-> "d1"] : a \in HandleArgs}] : n \in 0..MaxActions}

\* register that stores the handler before it looks at its type.
registerStoresFirst(table, actionType, fn) == [table EXCEPT ![actionType] = fn]

\* register(actionType, handler): throws for a handler that is not a function,
\* before the table is written.
register(table, actionType, fn) ==
    IF fn = "notFunction" THEN table ELSE [table EXCEPT ![actionType] = fn]

registerEnds(fn) == IF fn = "notFunction" THEN "threw" ELSE "returned"

\* handleEnds that answers false when the handler threw.
handleEndsSwallows(h) == IF h = "ok" THEN "true" ELSE "false"

\* How handle() ends for the handler it found: false without handler, true
\* when the handler completed, the handler's error re-thrown.
handleEnds(h) ==
    CASE h = "none" -> "false"
      [] h = "ok" -> "true"
      [] OTHER -> "threw"

AHRegister(actionType, fn) ==
    /\ handlers' = register(handlers, actionType, fn)
    /\ ahLast' = [NoActionCall EXCEPT !.call = "register", !.name = actionType,
                                      !.arg = fn, !.table = handlers,
                                      !.ret = registerEnds(fn)]
    /\ UNCHANGED <<adapters, config, backoffMs, other, hookMap, emitSt, ahStats, ahLog,
                   runStages, waited, errorStats, pc, idx, attempt, maxAttempts,
                   pendingError, result, msgActions, invoked, emitted, thrown,
                   dispatched, registered, ehLast, ehLog>>

\* handle(actionType, data, context) called directly.
AHHandle(actionType) ==
    LET es == Executions(handlers, <<[action |-> actionType, data |-> "d1"]>>) IN
    /\ Len(ahLog) < MaxCalls
    /\ ahStats' = StatsAfter(ahStats, es)
    /\ ahLog' = ahLog \o es
    /\ dispatched' = handleAll(handlers, dispatched, <<[action |-> actionType, data |-> "d1"]>>)
    /\ ahLast' = [NoActionCall EXCEPT !.call = "handle", !.name = actionType,
                                      !.table = handlers, !.ran = es,
                                      !.ret = handleEnds(HandlerOf(handlers, actionType))]
    /\ UNCHANGED <<adapters, config, backoffMs, other, hookMap, emitSt, runStages, waited,
                   errorStats, pc, idx, attempt, maxAttempts, pendingError, result,
                   msgActions, invoked, emitted, thrown, handlers, registered,
                   ehLast, ehLog>>

\* handleAll(actions, context) called directly.
AHHandleAll(records) ==
    LET es == Executions(handlers, records) IN
    /\ Len(ahLog) + Len(records) <= MaxCalls
    /\ ahStats' = StatsAfter(ahStats, es)
    /\ ahLog' = ahLog \o es
    /\ dispatched' = handleAll(handlers, dispatched, records)
    /\ ahLast' = [NoActionCall EXCEPT !.call = "handleAll", !.records = records,
                                      !.table = handlers, !.ran = es,
                                      !.ret = "returned"]
    /\ UNCHANGED <<adapters, config, backoffMs, other, hookMap, emitSt, runStages, waited,
                   errorStats, pc, idx, attempt, maxAttempts, pendingError, result,
                   msgActions, invoked, emitted, thrown, handlers, registered,
                   ehLast, ehLog>>

\* resetStats() of the ActionHandler.
AHResetStats ==
    /\ Len(ahLog) < MaxCalls
    /\ ahStats' = ZeroActionStats
    /\ ahLog' = Append(ahLog, [action |-> "resetStats", data |-> "none", outcome |-> "none"])
    /\ ahLast' = [NoActionCall EXCEPT !.call = "resetStats", !.table = handlers,
                                      !.ret = "returned"]
    /\ UNCHANGED <<adapters, config, backoffMs, other, hookMap, emitSt, runStages, waited,
                   errorStats, pc, idx, attempt, maxAttempts, pendingError, result,
                   msgActions, invoked, emitted, thrown, handlers, dispatched,
                   registered, ehLast, ehLog>>

NextAH ==
    \/ \E actionType \in ActionTypes, fn \in RegisterArgs : AHRegister(actionType, fn)
    \/ \E actionType \in HandleArgs : AHHandle(actionType)
    \/ \E records \in RecordLists : AHHandleAll(records)
    \/ AHResetStats

\* An ActionHandler as constructed, used directly.
SpecAH == InitEH /\ [][NextAH]_vars

\* ------------------------------------------------------ HookManager alone
\* What a listener does when called.
ListenerBehaviours == {"returns", "throws"}

\* AfterListener without the try/catch around the listener.
AfterListenerPropagates(does) == IF does = "throws" THEN "threw" ELSE "running"

\* try { await callback(data) } catch (error) { console.error(...) }
AfterListener(does) == "running"

\* One turn of for (const callback of callbacks): the iterator looks at the
\* array as it is now, and the next listener is called or emit returns.
CallNext(st) ==
    IF st.i < Len(st.callbacks)
    THEN [st EXCEPT !.i = @ + 1,
                    !.called = Append(@, [at |-> st.i + 1, does |-> st.callbacks[st.i + 1]]),
                    !.pc = AfterListener(st.callbacks[st.i + 1])]
    ELSE [st EXCEPT !.pc = "returned"]

\* on(hookName, callback): pushes to the array of the hook, which a running
\* emit of that hook is iterating unless clear() has dropped it from the map.
On(hookName, does) ==
    /\ Len(hookMap[hookName]) < MaxListeners
    /\ hookMap' = [hookMap EXCEPT ![hookName] = Append(@, does)]
    /\ emitSt' = IF emitSt.pc = "running" /\ emitSt.attached /\ emitSt.name = hookName
                 THEN [emitSt EXCEPT !.callbacks = Append(@, does)]
                 ELSE emitSt
    /\ UNCHANGED <<adapters, config, outside, backoffMs, other, ahStats, ahLast, ahLog,
                   runStages, waited, errorStats, pc, idx, attempt, maxAttempts,
                   pendingError, result, msgActions, invoked, emitted, thrown>>

\* clear(): this.hooks.clear()
Clear ==
    /\ hookMap # NoListeners
    /\ hookMap' = NoListeners
    /\ emitSt' = [emitSt EXCEPT !.attached = FALSE]
    /\ UNCHANGED <<adapters, config, outside, backoffMs, other, ahStats, ahLast, ahLog,
                   runStages, waited, errorStats, pc, idx, attempt, maxAttempts,
                   pendingError, result, msgActions, invoked, emitted, thrown>>

\* emit(hookName, data) up to the first await: the array is looked up and its
\* first listener, if any, is called.
EmitBegin(hookName) ==
    /\ emitSt.pc = "idle"
    /\ emitSt' = CallNext([pc |-> "running", name |-> hookName,
                           callbacks |-> hookMap[hookName], i |-> 0,
                           attached |-> hookMap[hookName] # <<>>,
                           atStart |-> hookMap[hookName], called |-> <<>>])
    /\ UNCHANGED <<adapters, config, outside, backoffMs, other, ahStats, ahLast, ahLog,
                   runStages, waited, errorStats, pc, idx, attempt, maxAttempts,
                   pendingError, result, msgActions, invoked, emitted, thrown,
                   hookMap>>

\* emit resumed after the await of a listener.
EmitStep ==
    /\ emitSt.pc = "running"
    /\ emitSt' = CallNext(emitSt)
    /\ UNCHANGED <<adapters, config, outside, backoffMs, other, ahStats, ahLast, ahLog,
                   runStages, waited, errorStats, pc, idx, attempt, maxAttempts,
                   pendingError, result, msgActions, invoked, emitted, thrown,
                   hookMap>>

NextHooks ==
    \/ \E hookName \in HookNames, does \in ListenerBehaviours : On(hookName, does)
    \/ Clear
    \/ \E hookName \in HookNames : EmitBegin(hookName)
    \/ EmitStep

\* A HookManager as constructed; listeners are registered before and during
\* one call of emit.
SpecHooks == InitEH /\ [][NextHooks]_vars

\* --------------------------------------------------------------- BotManager
MgrOps == {"addBot", "updateBot", "removeBot"}

\* What a call does once its removeBot has returned: removeBot returns,
\* addBot creates the bot, updateBot calls addBot.
ThenOf(op) ==
    CASE op = "removeBot" -> "return"
      [] op = "addBot" -> "create"
      [] op = "updateBot" -> "addBot"

\* The bots that calls in flight are still to create.
ToCreate == Cardinality({c \in Callers : mgrCalls[c].then \in {"create", "addBot"}})

\* removeBot up to its await: const entry = this.bots.get(clientId);
\* if (entry) await entry.bot.stop?.()
RemoveBegins(c, op, client, then) ==
    IF bots[client] # NoEntry
    THEN /\ instances' = [instances EXCEPT ![bots[client].bot].stopped = TRUE]
         /\ mgrCalls' = [mgrCalls EXCEPT ![c] =
                            [op |-> op, client |-> client, pc |-> "stopping", then |-> then]]
    ELSE /\ UNCHANGED instances
         /\ mgrCalls' = [mgrCalls EXCEPT ![c] =
                            IF then = "return" THEN NoMgrCall
                            ELSE [op |-> op, client |-> client, pc |-> "removed",
                                  then |-> then]]

\* addBot / updateBot / removeBot are called: each begins with removeBot.
MgrCall(c, op, client) ==
    /\ mgrCalls[c].pc = "idle"
    /\ op # "removeBot" => Len(instances) + ToCreate < MaxBots
    /\ RemoveBegins(c, op, client, ThenOf(op))
    /\ UNCHANGED <<framework, caching, bots>>

\* stop() has ended: this.bots.delete(clientId), and removeBot returns.
RemoveEnds(c) ==
    /\ mgrCalls[c].pc = "stopping"
    /\ bots' = [bots EXCEPT ![mgrCalls[c].client] = NoEntry]
    /\ mgrCalls' = [mgrCalls EXCEPT ![c] =
                       IF mgrCalls[c].then = "return" THEN NoMgrCall
                       ELSE [@ EXCEPT !.pc = "removed"]]
    /\ UNCHANGED <<framework, caching, instances>>

\* updateBot after its removeBot: return this.addBot(...), which begins with
\* removeBot again.
UpdateAdds(c) ==
    /\ mgrCalls[c].pc = "removed"
    /\ mgrCalls[c].then = "addBot"
    /\ RemoveBegins(c, mgrCalls[c].op, mgrCalls[c].client, "create")
    /\ UNCHANGED <<framework, caching, bots>>

\* addBot after its removeBot: new BotEngine, this.bots.set(clientId, ...),
\* bot.start() is called.
Create(c) ==
    /\ mgrCalls[c].pc = "removed"
    /\ mgrCalls[c].then = "create"
    /\ instances' = Append(instances, [client |-> mgrCalls[c].client, started |-> TRUE,
                                       stopped |-> FALSE])
    /\ bots' = [bots EXCEPT ![mgrCalls[c].client] =
                   [bot |-> Len(instances) + 1, status |-> "stopped"]]
    /\ mgrCalls' = [mgrCalls EXCEPT ![c] = [@ EXCEPT !.pc = "starting", !.then = "return"]]
    /\ UNCHANGED <<framework, caching>>

\* start() has ended: this.bots.get(clientId).status = 'running'; return bot.
\* Without an entry the assignment throws a TypeError and addBot rejects.
StartEnds(c) ==
    /\ mgrCalls[c].pc = "starting"
    /\ bots' = IF bots[mgrCalls[c].client] = NoEntry
               THEN bots
               ELSE [bots EXCEPT ![mgrCalls[c].client].status = "running"]
    /\ mgrCalls' = [mgrCalls EXCEPT ![c] = NoMgrCall]
    /\ UNCHANGED <<framework, caching, instances>>

\* Calls of the BotManager by callers whose calls overlap at the awaits.
NextMgr ==
    \E c \in Callers :
        \/ \E op \in MgrOps, client \in ClientIds : MgrCall(c, op, client)
        \/ RemoveEnds(c)
        \/ UpdateAdds(c)
        \/ Create(c)
        \/ StartEnds(c)

SpecMgr == InitEH /\ [][NextMgr]_vars

\* ------------------------------------------------------------- CacheAdapter
ReadKinds == {"findAll", "findById", "query"}
WriteKinds == {"insert", "update", "delete"}

\* The reads a caller may make, each with the key it builds.
ReadCalls ==
    {[kind |-> "findAll", table |-> t, key |-> FindAllKey(t)] : t \in Tables}
    \cup {[kind |-> "findById", table |-> t, key |-> FindByIdKey(t, i)] : t \in Tables, i \in Ids}
    \cup {[kind |-> "query", table |-> "none", key |-> QueryKey(q)] : q \in Sqls}

\* What the callback given to transaction() returns.
TxResults == {"done", "other"}

\* The call of caller c has returned.
Returned(c) == [inflight EXCEPT ![c] = NoCacheCall]

\* The call of caller c is at its next await.
At(c, where) == [inflight EXCEPT ![c].pc = where]

\* query / findById / findAll: cache.get(key) and, on a hit, return cached.
CacheRead(c, call) ==
    /\ inflight[c].pc = "idle"
    /\ cacheCalls < MaxCacheCalls
    /\ cacheCalls' = cacheCalls + 1
    /\ cacheLast' = [NoCacheStep EXCEPT !.kind = call.kind, !.table = call.table,
                                        !.key = call.key,
                                        !.hit = call.key \in store,
                                        !.wasFresh = call.key \in fresh,
                                        !.wasPopulated = call.key \in populated]
    /\ fresh' = fresh \ {call.key}
    /\ inflight' = IF call.key \in store
                   THEN inflight
                   ELSE [inflight EXCEPT ![c] =
                            [kind |-> call.kind, table |-> call.table, key |-> call.key,
                             pc |-> "db", arg |-> "none"]]
    /\ UNCHANGED <<framework, managing, store, tableKeys, cacheApi, populated>>

\* The database answers a read: findById may find no row, and then nothing
\* is cached.
ReadDb(c) ==
    /\ inflight[c].pc = "db"
    /\ \E found \in (IF inflight[c].kind = "findById" THEN BOOLEAN ELSE {TRUE}) :
          inflight' = IF found THEN At(c, "set") ELSE Returned(c)
    /\ cacheLast' = NoCacheStep
    /\ UNCHANGED <<framework, managing, cacheCalls, store, tableKeys, cacheApi, fresh, populated>>

\* await this.cache.set(key, result, this.defaultTTL); query returns here.
ReadSet(c) ==
    /\ inflight[c].pc = "set"
    /\ store' = store \cup {inflight[c].key}
    /\ populated' = populated \cup {inflight[c].key}
    /\ inflight' = IF inflight[c].kind = "query" THEN Returned(c) ELSE At(c, "track")
    /\ cacheLast' = NoCacheStep
    /\ UNCHANGED <<framework, managing, cacheCalls, tableKeys, cacheApi, fresh>>

\* this._trackKey(table, key); return result
ReadTrack(c) ==
    /\ inflight[c].pc = "track"
    /\ tableKeys' = [tableKeys EXCEPT ![inflight[c].table] = @ \cup {inflight[c].key}]
    /\ inflight' = Returned(c)
    /\ cacheLast' = NoCacheStep
    /\ UNCHANGED <<framework, managing, cacheCalls, store, cacheApi, fresh, populated>>

\* insert / update / delete: await this.db.insert(table, data)
CacheWrite(c, kind, table) ==
    /\ inflight[c].pc = "idle"
    /\ cacheCalls < MaxCacheCalls
    /\ cacheCalls' = cacheCalls + 1
    /\ inflight' = [inflight EXCEPT ![c] =
                       [kind |-> kind, table |-> table, key |-> <<>>,
                        pc |-> "invalidate", arg |-> "none"]]
    /\ populated' = {}
    /\ cacheLast' = NoCacheStep
    /\ UNCHANGED <<framework, managing, store, tableKeys, cacheApi, fresh>>

\* _invalidateTableCache: the keys the cache holds once the del calls or the
\* clear call are made.
Invalidated(api, keys, held) ==
    IF keys # {} /\ api.del THEN held \ keys
    ELSE IF api.clear THEN {}
    ELSE held

\* _invalidateTableCache(table) up to its await.
Invalidate(c) ==
    /\ inflight[c].pc = "invalidate"
    /\ LET table == inflight[c].table
           keys == tableKeys[table]
       IN  /\ store' = Invalidated(cacheApi, keys, store)
           /\ cacheLast' = [NoCacheStep EXCEPT !.kind = inflight[c].kind, !.table = table,
                                               !.before = store,
                                               !.after = Invalidated(cacheApi, keys, store)]
           /\ IF keys # {} /\ cacheApi.del THEN
                 /\ inflight' = At(c, "untrack")
                 /\ UNCHANGED fresh
              ELSE IF cacheApi.clear THEN
                 /\ inflight' = At(c, "untrackAll")
                 /\ UNCHANGED fresh
              ELSE
                 /\ inflight' = Returned(c)
                 /\ fresh' = fresh \cup KeysOf(table)
    /\ populated' = {}
    /\ UNCHANGED <<framework, managing, cacheCalls, tableKeys, cacheApi>>

\* this._tableKeys.delete(table) or this._tableKeys.clear(), then the write
\* returns.
InvalidateEnds(c) ==
    /\ inflight[c].pc \in {"untrack", "untrackAll"}
    /\ tableKeys' = IF inflight[c].pc = "untrack"
                    THEN [tableKeys EXCEPT ![inflight[c].table] = {}]
                    ELSE NoTableKeys
    /\ fresh' = fresh \cup KeysOf(inflight[c].table)
    /\ inflight' = Returned(c)
    /\ populated' = {}
    /\ cacheLast' = NoCacheStep
    /\ UNCHANGED <<framework, managing, cacheCalls, store, cacheApi>>

\* transaction(callback): await this.db.transaction(callback)
Transaction(c, res) ==
    /\ inflight[c].pc = "idle"
    /\ cacheCalls < MaxCacheCalls
    /\ cacheCalls' = cacheCalls + 1
    /\ inflight' = [inflight EXCEPT ![c] =
                       [kind |-> "transaction", table |-> "none", key |-> <<>>,
                        pc |-> "clear", arg |-> res]]
    /\ populated' = {}
    /\ cacheLast' = NoCacheStep
    /\ UNCHANGED <<framework, managing, store, tableKeys, cacheApi, fresh>>

\* The transaction committed: await this.cache.clear?.()
TransactionClears(c) ==
    /\ inflight[c].pc = "clear"
    /\ store' = IF cacheApi.clear THEN {} ELSE store
    /\ inflight' = At(c, "txUntrack")
    /\ populated' = {}
    /\ cacheLast' = NoCacheStep
    /\ UNCHANGED <<framework, managing, cacheCalls, tableKeys, cacheApi, fresh>>

\* The callback threw: db.transaction rejects and so does transaction().
TransactionRejects(c) ==
    /\ inflight[c].pc = "clear"
    /\ inflight' = Returned(c)
    /\ populated' = {}
    /\ cacheLast' = NoCacheStep
    /\ UNCHANGED <<framework, managing, cacheCalls, store, tableKeys, cacheApi, fresh>>

\* this._tableKeys.clear(); return result
TransactionEnds(c) ==
    /\ inflight[c].pc = "txUntrack"
    /\ tableKeys' = NoTableKeys
    /\ inflight' = Returned(c)
    /\ cacheLast' = [NoCacheStep EXCEPT !.kind = "transaction", !.after = store,
                                        !.tracked = NoTableKeys,
                                        !.arg = inflight[c].arg,
                                        !.ret = inflight[c].arg]
    /\ populated' = {}
    /\ UNCHANGED <<framework, managing, cacheCalls, store, cacheApi, fresh>>

\* A CacheAdapter over a cache with or without del and clear.
InitCache == Standalone /\ cacheApi \in CacheApis

\* Calls of the adapter by callers whose calls overlap at the awaits.
NextCache ==
    \E c \in Callers :
        \/ \E call \in ReadCalls : CacheRead(c, call)
        \/ ReadDb(c)
        \/ ReadSet(c)
        \/ ReadTrack(c)
        \/ \E kind \in WriteKinds, table \in Tables : CacheWrite(c, kind, table)
        \/ Invalidate(c)
        \/ InvalidateEnds(c)
        \/ \E res \in TxResults : Transaction(c, res)
        \/ TransactionClears(c)
        \/ TransactionRejects(c)
        \/ TransactionEnds(c)

SpecCache == InitCache /\ [][NextCache]_vars

\* The same over a cache with get, set, del and clear.
SpecFullCache == InitEH /\ [][NextCache]_vars

\* ------------------------------------------------------- history operators
Positions == 1..Len(stages)

EntriesOf(i) == {k \in 1..Len(invoked) : invoked[k].pos = i}

Calls(i) == Cardinality(EntriesOf(i))

ThrowsOf(i) == Cardinality({k \in EntriesOf(i) : invoked[k].out = "threw"})

\* The last invocation's error is still waiting for the catch block.
Pending(k) == k = Len(invoked) /\ pc = "catch"

NoStopNoThrow ==
    \A k \in 1..Len(invoked) :
        invoked[k].out = "returned" /\ ~invoked[k].sig.stop

StrategyOf(i) == recoveryStrategies[StageName(stages[i])]

\* ------------------------------------------------------------------ claims
\* C1: when no stage returns a Stop signal and no stage throws, process
\* invokes every stage exactly once, in registration order, and returns a
\* result with stop = false.
C1_AllStagesOnceInOrder ==
    (pc = "done" /\ NoStopNoThrow) =>
        /\ Len(invoked) = Len(stages)
        /\ \A k \in 1..Len(invoked) : invoked[k].pos = k
        /\ result.stop = FALSE

C1_Witness ==
    /\ pc = "done"
    /\ NoStopNoThrow
    /\ Len(stages) >= 2
    /\ Len(invoked) = Len(stages)

\* C2: when stage k returns a Stop signal, no later stage is invoked in the
\* run, result.stop is true and result.metadata holds every field of the
\* signal, its reason included.
C2_StopSignalHalts ==
    \A k \in 1..Len(invoked) :
        (invoked[k].out = "returned" /\ invoked[k].sig.stop) =>
            /\ k = Len(invoked)
            /\ pc \in {"afterPipeline", "done"}
            /\ result.stop = TRUE
            /\ \A f \in DOMAIN SignalFields(invoked[k].sig) :
                  /\ f \in DOMAIN result.metadata
                  /\ result.metadata[f] = SignalFields(invoked[k].sig)[f]
            /\ result.metadata["reason"] = invoked[k].sig.reason

C2_Witness ==
    /\ pc = "done"
    /\ Len(invoked) >= 1
    /\ invoked[Len(invoked)].out = "returned"
    /\ invoked[Len(invoked)].sig.stop
    /\ invoked[Len(invoked)].pos < Len(stages)
    /\ result.metadata["reason"] = "blocked"

\* C3: once result.stop is true no stage is invoked any more in the run; the
\* run only emits after:pipeline and returns the result unchanged.
C3_NoStageAfterStop ==
    /\ [](result.stop => pc \in {"afterPipeline", "done"})
    /\ [][result.stop => (invoked' = invoked /\ result' = result
                            /\ pc' = "done")]_vars

C3_Witness ==
    /\ pc = "done"
    /\ result.stop
    /\ result.error # NoError
    /\ Len(invoked) >= 2
    /\ invoked[Len(invoked)].pos < Len(stages)

\* The number of attempts a retry strategy grants: maxRetries, 3 by default.
EffMaxRetries(i) ==
    IF StrategyOf(i).maxRetries = NoOpt THEN DefaultMaxRetries
    ELSE StrategyOf(i).maxRetries

LastPos == IF Len(invoked) = 0 THEN 0 ELSE invoked[Len(invoked)].pos

LastEntryOf(i) == invoked[CHOOSE k \in EntriesOf(i) : \A j \in EntriesOf(i) : j <= k]

\* The stage after position i has been invoked, or is about to be.
NextStageRuns(i) ==
    \/ Calls(i + 1) >= 1
    \/ LastPos = i /\ pc = "forNext"
    \/ LastPos = i /\ pc = "try" /\ idx = i + 1

\* C4: with an ErrorHandler attached and a retry strategy with maxRetries = N
\* for a stage, a stage that throws on every attempt is invoked exactly N
\* times; the run then ends with stop = true, result.error the last thrown
\* error and result.errorStage the stage's name.
C4_RetryExhaustion ==
    \A i \in Positions :
        (errorHandler /\ StrategyOf(i).strategy = "retry"
            /\ Calls(i) >= 1 /\ ThrowsOf(i) = Calls(i)) =>
            /\ Calls(i) <= EffMaxRetries(i)
            /\ LastPos = i
            /\ pc \in {"try", "catch", "afterPipeline", "done"}
            /\ pc \in {"afterPipeline", "done"} =>
                  /\ Calls(i) = EffMaxRetries(i)
                  /\ result.stop = TRUE
                  /\ result.error = invoked[Len(invoked)].err
                  /\ result.errorStage = StageName(stages[i])

C4_Witness ==
    /\ pc = "done"
    /\ errorHandler
    /\ StrategyOf(1) = [strategy |-> "retry", maxRetries |-> 2]
    /\ Len(stages) >= 2
    /\ Calls(1) = 2 /\ ThrowsOf(1) = 2
    /\ result.stop /\ result.errorStage = StageName(stages[1])

\* C5: with a retry strategy with maxRetries = N, a stage that throws on its
\* first j < N attempts and then succeeds is invoked exactly j+1 times, does
\* not stop the run and records no error, and the following stage is invoked.
C5_RetryThenSuccess ==
    \A i \in Positions :
        (errorHandler /\ StrategyOf(i).strategy = "retry" /\ Calls(i) >= 1) =>
            \* every failed attempt short of N is followed by another attempt
            /\ (ThrowsOf(i) = Calls(i) /\ Calls(i) < EffMaxRetries(i) /\ pc # "catch") =>
                  /\ LastPos = i /\ pc = "try" /\ idx = i
                  /\ result.stop = FALSE /\ result.error = NoError
            \* and the attempt that succeeds is the last one of the stage
            /\ (LastEntryOf(i).out = "returned") =>
                  /\ Calls(i) = ThrowsOf(i) + 1
                  /\ ThrowsOf(i) < EffMaxRetries(i)
                  /\ ~LastEntryOf(i).sig.stop =>
                        /\ LastPos = i =>
                              /\ result.stop = FALSE
                              /\ result.error = NoError
                              /\ result.errorStage = NoStage
                        /\ i < Len(stages) => NextStageRuns(i)
                        /\ (pc = "done" /\ i < Len(stages)) => Calls(i + 1) >= 1

C5_Witness ==
    /\ pc = "done"
    /\ errorHandler
    /\ StrategyOf(1).strategy = "retry"
    /\ Len(stages) >= 2
    /\ Calls(1) = 3 /\ ThrowsOf(1) = 2
    /\ invoked[3].out = "returned" /\ ~invoked[3].sig.stop
    /\ Calls(2) >= 1
    /\ result.stop = FALSE

\* C6: when a stage with strategy 'stop' throws, the run ends with stop =
\* true, result.error the thrown error and result.errorStage the stage's
\* name; the stage is invoked exactly once and no later stage is invoked.
C6_StopStrategy ==
    \A k \in 1..Len(invoked) :
        (errorHandler /\ invoked[k].out = "threw"
            /\ StrategyOf(invoked[k].pos).strategy = "stop") =>
            /\ k = Len(invoked)
            /\ Calls(invoked[k].pos) = 1
            /\ ~Pending(k) =>
                  /\ pc \in {"afterPipeline", "done"}
                  /\ result.stop = TRUE
                  /\ result.error = invoked[k].err
                  /\ result.errorStage = StageName(stages[invoked[k].pos])

C6_Witness ==
    /\ pc = "done"
    /\ errorHandler
    /\ Len(invoked) >= 1
    /\ invoked[Len(invoked)].out = "threw"
    /\ StrategyOf(LastPos).strategy = "stop"
    /\ LastPos < Len(stages)
    /\ result.stop /\ result.error # NoError

\* C7: when a stage with strategy 'skip' throws, the stage is invoked exactly
\* once, the run is not stopped and records no error, and the next stage in
\* sequence is invoked.
C7_SkipStrategy ==
    \A k \in 1..Len(invoked) :
        (errorHandler /\ invoked[k].out = "threw"
            /\ StrategyOf(invoked[k].pos).strategy = "skip") =>
            /\ Calls(invoked[k].pos) = 1
            /\ (~Pending(k) /\ k = Len(invoked)) =>
                  /\ result.stop = FALSE
                  /\ result.error = NoError
                  /\ result.errorStage = NoStage
            /\ (~Pending(k) /\ invoked[k].pos < Len(stages)) =>
                  NextStageRuns(invoked[k].pos)
            /\ (pc = "done" /\ invoked[k].pos < Len(stages)) =>
                  Calls(invoked[k].pos + 1) >= 1

C7_Witness ==
    /\ pc = "done"
    /\ errorHandler
    /\ Len(invoked) >= 2
    /\ invoked[1].out = "threw"
    /\ StrategyOf(1).strategy = "skip"
    /\ invoked[2].pos = 2
    /\ result.stop = FALSE

\* C8: with no ErrorHandler attached a throwing stage is treated as skipped:
\* it is invoked exactly once, the run goes on to the later stages (all of
\* them, when none returns a Stop signal), and the result has stop = false
\* on account of it with no error or errorStage recorded.
C8_DefaultSkip ==
    ~errorHandler =>
        /\ result.error = NoError
        /\ result.errorStage = NoStage
        /\ \A k \in 1..Len(invoked) :
              invoked[k].out = "threw" =>
                  /\ Calls(invoked[k].pos) = 1
                  /\ (~Pending(k) /\ k = Len(invoked)) => result.stop = FALSE
                  /\ (~Pending(k) /\ invoked[k].pos < Len(stages)) =>
                        NextStageRuns(invoked[k].pos)
        /\ (pc = "done" /\ \A k \in 1..Len(invoked) : ~invoked[k].sig.stop) =>
              /\ Len(invoked) = Len(stages)
              /\ \A k \in 1..Len(invoked) : invoked[k].pos = k
              /\ result.stop = FALSE

C8_Witness ==
    /\ pc = "done"
    /\ ~errorHandler
    /\ Len(stages) >= 2
    /\ Len(invoked) = Len(stages)
    /\ invoked[1].out = "threw"
    /\ invoked[2].out = "returned"
    /\ result.stop = FALSE

\* A null fallback value is present in the run result.
FallbackValueRecorded ==
    \/ "fallbackValue" \in DOMAIN result
    \/ "fallbackValue" \in DOMAIN result.metadata

\* C9: when a throwing stage's recovery action is 'fallback', process goes on
\* to the next stage and records a null fallback value in the run result.
C9_FallbackRecordsValue ==
    \A k \in 1..Len(invoked) :
        invoked[k].rec = "fallback" =>
            /\ invoked[k].pos < Len(stages) => NextStageRuns(invoked[k].pos)
            /\ FallbackValueRecorded

\* C10: process never throws because a stage raised an error: every stage
\* error is converted into a recovery action and process returns a result.
C10_ProcessNeverThrows ==
    pc # "threw" /\ thrown = "none"

\* ------------------------------------------------------------ hook history
HookCount(h) == Cardinality({k \in 1..Len(emitted) : emitted[k].hook = h})

RunEnded == pc \in {"done", "threw"}

\* C11: with a HookManager attached, before:pipeline is emitted exactly once
\* and before any stage is invoked, and every run ends with after:pipeline
\* emitted exactly once, as its last emission, carrying the final result.
C11_PipelineHooks ==
    hooks =>
        /\ pc # "idle" =>
              /\ emitted[1].hook = "before:pipeline"
              /\ HookCount("before:pipeline") = 1
        /\ (pc = "idle") => (emitted = <<>> /\ invoked = <<>>)
        /\ ~RunEnded => HookCount("after:pipeline") = 0
        /\ RunEnded =>
              /\ HookCount("after:pipeline") = 1
              /\ emitted[Len(emitted)].hook = "after:pipeline"
              /\ emitted[Len(emitted)].payload = result

\* The part of C11 that the code keeps: the same, for runs that return.
C11_ReturnedRuns ==
    hooks =>
        /\ pc # "idle" =>
              /\ emitted[1].hook = "before:pipeline"
              /\ HookCount("before:pipeline") = 1
        /\ (pc # "done") => HookCount("after:pipeline") = 0
        /\ (pc = "done") =>
              /\ HookCount("after:pipeline") = 1
              /\ emitted[Len(emitted)].hook = "after:pipeline"
              /\ emitted[Len(emitted)].payload = result

\* The emissions about stages, in order.
StageEvents == SelectSeq(emitted, LAMBDA e : e.stage # NoStage)

\* C12 as stated: each started stage attempt emits before:stage, optionally
\* error:stage, then after:stage for the same stage name, all before the next
\* before:stage.
C12_AfterStageAlways ==
    \A k \in 1..Len(StageEvents) :
        StageEvents[k].hook = "before:stage" =>
            \E j \in {k + 1, k + 2} :
                /\ j <= Len(StageEvents)
                /\ StageEvents[j].hook = "after:stage"
                /\ StageEvents[j].stage = StageEvents[k].stage
                /\ j = k + 2 =>
                      /\ StageEvents[k + 1].hook = "error:stage"
                      /\ StageEvents[k + 1].stage = StageEvents[k].stage

\* C12 amended: each started stage attempt emits before:stage followed by
\* exactly one closing emission for the same stage name, after:stage when the
\* stage returned and error:stage when it threw, before the next before:stage.
C12_AfterOrErrorStage ==
    hooks =>
        /\ Len(StageEvents) = 2 * Len(invoked)
        /\ \A k \in 1..Len(invoked) :
              LET name == StageName(stages[invoked[k].pos])
                  open == StageEvents[2 * k - 1]
                  close == StageEvents[2 * k]
              IN  /\ open.hook = "before:stage" /\ open.stage = name
                  /\ close.stage = name
                  /\ close.hook = IF invoked[k].out = "threw"
                                  THEN "error:stage" ELSE "after:stage"

C12_Witness ==
    /\ hooks
    /\ pc = "done"
    /\ Len(invoked) >= 2
    /\ invoked[1].out = "threw"
    /\ invoked[2].out = "returned"
    /\ StageEvents[2].hook = "error:stage"
    /\ StageEvents[4].hook = "after:stage"

\* The invocations that returned an ActionDeclaration, in order.
Declared == SelectSeq(invoked, LAMBDA e : e.out = "returned" /\ e.sig.action # "none")

\* C13: a stage that returns {action, data} without stop gets exactly one
\* record {action, data, stage} appended to result.actions, and the run goes
\* on: result.stop stays false and the next stage is invoked.
C13_ActionDeclared ==
    /\ Len(result.actions) = Len(Declared)
    /\ \A j \in 1..Len(Declared) :
          result.actions[j] =
              [action |-> Declared[j].sig.action, data |-> Declared[j].sig.data,
               stage |-> StageName(stages[Declared[j].pos])]
    /\ \A k \in 1..Len(invoked) :
          (invoked[k].out = "returned" /\ invoked[k].sig.action # "none"
              /\ ~invoked[k].sig.stop) =>
              /\ k = Len(invoked) => result.stop = FALSE
              /\ invoked[k].pos < Len(stages) => NextStageRuns(invoked[k].pos)
              /\ (pc = "done" /\ invoked[k].pos < Len(stages)) =>
                    Calls(invoked[k].pos + 1) >= 1

C13_Witness ==
    /\ pc = "done"
    /\ Len(invoked) >= 2
    /\ invoked[1].out = "returned"
    /\ invoked[1].sig.action = "notify" /\ ~invoked[1].sig.stop
    /\ invoked[2].pos = 2
    /\ Len(result.actions) >= 1
    /\ result.actions[1] = [action |-> "notify", data |-> "d1",
                            stage |-> StageName(stages[1])]
    /\ result.stop = FALSE

RECURSIVE IsSubseq(_, _)
\* The records of a occur in b in the same relative order.
IsSubseq(a, b) ==
    IF a = <<>> THEN TRUE
    ELSE IF b = <<>> THEN FALSE
    ELSE IF Head(a) = Head(b) THEN IsSubseq(Tail(a), Tail(b))
    ELSE IsSubseq(a, Tail(b))

\* C14: at every point of a run, whatever the stages do to the event, every
\* record of result.actions is in message._actions, in the same relative order.
C14_ActionsSynchronized ==
    IsSubseq(result.actions, IF msgActions = Absent THEN <<>> ELSE msgActions)

\* C15: when the engine has handled an event, every action accumulated in the
\* run whose type has a registered handler was executed by the ActionHandler.
C15_ActionsDispatched ==
    pc = "handled" =>
        \A j \in 1..Len(result.actions) :
            HandlerOf(handlers, result.actions[j].action) # "none" =>
                \E k \in 1..Len(dispatched) :
                    /\ dispatched[k].action = result.actions[j].action
                    /\ dispatched[k].data = result.actions[j].data

\* What a strategy answers, whatever the error.
StrategyAnswers(strategy) ==
    IF strategy.strategy = "retry"
    THEN {Recovery("retry", "stage_error"), Recovery("stop", "max_retries")}
    ELSE {Recovery(strategy.strategy, "stage_error")}

\* C16: when a recovery strategy is registered for the stage, handle answers
\* by that strategy for every error kind and calls no kind handler.
C16_StrategyPriority ==
    (ehLast # NoCall /\ recoveryStrategies[ehLast.stage] # NoStrategy) =>
        /\ ehLast.via = "strategy"
        /\ ehLast.out \in StrategyAnswers(recoveryStrategies[ehLast.stage])

C16_Witness ==
    /\ ehLast.error.kind = "TypeError"
    /\ registered["TypeError"] = "retry"
    /\ recoveryStrategies[ehLast.stage].strategy = "skip"
    /\ ehLast.out = Recovery("skip", "stage_error")

\* The built-in table of the specification, by kind and code.
BuiltinAnswer(error) ==
    CASE error.kind = "DatabaseError" /\ error.code = "ECONNREFUSED" ->
             Recovery("stop", "db_connection_failed")
      [] error.kind = "DatabaseError" /\ error.code = "QUERY_CANCELLED" ->
             Recovery("skip", "db_timeout")
      [] error.kind = "DatabaseError" /\ error.code \notin {"ECONNREFUSED", "QUERY_CANCELLED"} ->
             Recovery("skip", "db_error")
      [] error.kind = "ValidationError" -> Recovery("skip", "validation_failed")
      [] error.kind = "StageError" -> Recovery("stop", "no_strategy")
      [] OTHER -> Recovery("stop", "unknown_error")

\* C17: without a strategy for the stage and without custom kind handlers,
\* handle answers by the built-in table.
C17_BuiltinTable ==
    (ehLast # NoCall /\ recoveryStrategies[ehLast.stage] = NoStrategy
        /\ registered = NoneRegistered) =>
        /\ ehLast.via = "kind"
        /\ ehLast.out = BuiltinAnswer(ehLast.error)

C17_Witness ==
    /\ ehLast.error = [kind |-> "DatabaseError", code |-> "ECONNREFUSED"]
    /\ recoveryStrategies[ehLast.stage] = NoStrategy
    /\ registered = NoneRegistered
    /\ ehLast.out = Recovery("stop", "db_connection_failed")

\* C18: with a retry strategy with maxRetries = M, handle called with attempt
\* number a answers retry when a < M and stop/max_retries when a >= M.
C18_RetryBelowMax ==
    LET strategy == recoveryStrategies[ehLast.stage] IN
    (ehLast # NoCall /\ strategy.strategy = "retry" /\ strategy.maxRetries # NoOpt
        /\ ehLast.attempt >= 1) =>
        IF ehLast.attempt < strategy.maxRetries
        THEN ehLast.out.action = "retry"
        ELSE ehLast.out = Recovery("stop", "max_retries")

\* The part of C18 the code keeps: the same for M >= 1.
C18_PositiveMax ==
    LET strategy == recoveryStrategies[ehLast.stage] IN
    (ehLast # NoCall /\ strategy.strategy = "retry" /\ strategy.maxRetries >= 1
        /\ ehLast.attempt >= 1) =>
        IF ehLast.attempt < strategy.maxRetries
        THEN ehLast.out.action = "retry"
        ELSE ehLast.out = Recovery("stop", "max_retries")

\* What a custom function does when called.
CustomOutcome(fn) ==
    CASE fn = "throw" -> HandlerThrows
      [] fn = "undefined" -> HandlerUndefined
      [] OTHER -> Recovery(fn, "custom")

\* C19: for a stage without a strategy, handle ends as the function most
\* recently registered for the error's kind ends, whether the kind has a
\* built-in handler or not.
C19_CustomHandler ==
    (ehLast # NoCall /\ recoveryStrategies[ehLast.stage] = NoStrategy
        /\ registered[ehLast.error.kind] # "none") =>
        /\ ehLast.fn = registered[ehLast.error.kind]
        /\ ehLast.out = CustomOutcome(registered[ehLast.error.kind])

C19_Witness ==
    /\ ehLast.error.kind = "ValidationError"
    /\ registered["ValidationError"] = "retry"
    /\ registered["TypeError"] = "throw"
    /\ recoveryStrategies[ehLast.stage] = NoStrategy
    /\ ehLast.out = Recovery("retry", "custom")

RECURSIVE LastReset(_)
\* The position of the last resetStats in the log, 0 if there is none.
LastReset(log) ==
    IF log = <<>> THEN 0
    ELSE IF log[Len(log)] = ResetMark THEN Len(log)
    ELSE LastReset(SubSeq(log, 1, Len(log) - 1))

\* The calls of handle since the last resetStats.
SinceReset == SubSeq(ehLog, LastReset(ehLog) + 1, Len(ehLog))

RECURSIVE SumOver(_, _)
SumOver(f, S) ==
    IF S = {} THEN 0
    ELSE LET x == CHOOSE y \in S : TRUE IN f[x] + SumOver(f, S \ {x})

\* C20: total, byType and byStage are the numbers of handle calls since the
\* last resetStats, in all and per kind and per stage name; total is the sum
\* of byType and the sum of byStage; after resetStats all are zero.
C20_StatsCount ==
    /\ errorStats.total = Len(SinceReset)
    /\ \A k \in ErrorKinds :
          errorStats.byType[k] =
              Cardinality({i \in 1..Len(SinceReset) : SinceReset[i].kind = k})
    /\ \A n \in StageNames :
          errorStats.byStage[n] =
              Cardinality({i \in 1..Len(SinceReset) : SinceReset[i].stage = n})
    /\ errorStats.total = SumOver(errorStats.byType, ErrorKinds)
    /\ errorStats.total = SumOver(errorStats.byStage, StageNames)
    /\ (ehLog # <<>> /\ ehLog[Len(ehLog)] = ResetMark) => errorStats = ZeroStats

C20_Witness ==
    /\ Len(ehLog) = 3
    /\ ehLog[1] = [kind |-> "TypeError", stage |-> "check"]
    /\ ehLog[2] = ResetMark
    /\ ehLog[3] = [kind |-> "DatabaseError", stage |-> "anonymous"]
    /\ errorStats.total = 1
    /\ errorStats.byType["TypeError"] = 0
    /\ errorStats.byType["DatabaseError"] = 1
    /\ errorStats.byStage["anonymous"] = 1

\* C21: emit calls every listener registered for the hook exactly once, one
\* after the other in registration order, also past a listener that throws,
\* and never throws to its caller.
C21_EmitCallsAll ==
    /\ emitSt.pc # "threw"
    /\ \A j \in 1..Len(emitSt.called) :
          emitSt.called[j] = [at |-> j, does |-> emitSt.callbacks[j]]
    /\ emitSt.pc = "returned" =>
          /\ Len(emitSt.called) = Len(emitSt.callbacks)
          /\ Len(emitSt.atStart) <= Len(emitSt.called)
          /\ \A j \in 1..Len(emitSt.atStart) :
                emitSt.called[j].does = emitSt.atStart[j]

C21_Witness ==
    /\ emitSt.pc = "returned"
    /\ emitSt.name = "ev"
    /\ emitSt.atStart = <<"returns", "throws", "returns">>
    /\ Len(emitSt.called) = 3
    /\ emitSt.called[3] = [at |-> 3, does |-> "returns"]

\* The number of the failed attempt recorded as entry k of a run's log.
AttemptNo(log, k) ==
    Cardinality({j \in 1..k : log[j].pos = log[k].pos /\ log[j].out = "threw"})

\* The result a run without HookManager builds from one more stage outcome.
ReplayStep(res, log, k) ==
    LET e == log[k]
        stageName == StageName(stages[e.pos])
        stopped == [res EXCEPT !.stop = TRUE, !.error = e.err, !.errorStage = stageName]
    IN  IF e.out = "returned"
        THEN [res EXCEPT
                 !.actions = CollectAction(@, e.sig, stageName),
                 !.stop = @ \/ e.sig.stop,
                 !.metadata = IF e.sig.stop THEN MergeMetadata(@, SignalFields(e.sig)) ELSE @]
        ELSE IF e.rec = "stop" THEN stopped
        ELSE IF e.rec = "retry" /\ AttemptNo(log, k) >= MaxAttemptsOf(stageName) THEN stopped
        ELSE res

RECURSIVE Replay(_, _)
\* The result a run without HookManager returns after the first k outcomes of log.
Replay(log, k) == IF k = 0 THEN NewResult ELSE ReplayStep(Replay(log, k - 1), log, k)

\* A run that made the invocations of log and returned res went on as a run
\* without HookManager does: it ended at the last stage or at a stop.
RunsOn(log, res) ==
    /\ log # <<>> =>
          (log[Len(log)].pos = Len(stages) \/ Replay(log, Len(log)).stop)
    /\ \A k \in 1..(Len(log) - 1) : ~Replay(log, k).stop

\* C22: with hook listeners attached, whatever they do, a run makes the stage
\* invocations and returns the result (stop, metadata, actions, error,
\* errorStage) of the run without HookManager on the same stage outcomes.
C22_HooksObserveOnly ==
    pc = "done" =>
        /\ result = Replay(invoked, Len(invoked))
        /\ RunsOn(invoked, result)

Handled(records, table) ==
    {i \in 1..Len(records) : HandlerOf(table, records[i].action) # "none"}

\* C24: handleAll never throws and runs, in list order, the handler of every
\* record that has one exactly once, also after a handler that threw and
\* after a record without handler.
C24_HandleAllRunsAll ==
    ahLast.call = "handleAll" =>
        /\ ahLast.ret = "returned"
        /\ Len(ahLast.ran) = Cardinality(Handled(ahLast.records, ahLast.table))
        /\ \A i \in Handled(ahLast.records, ahLast.table) :
              LET n == Cardinality({j \in Handled(ahLast.records, ahLast.table) : j <= i})
              IN  ahLast.ran[n] =
                      [action |-> ahLast.records[i].action, data |-> ahLast.records[i].data,
                       outcome |-> ahLast.table[ahLast.records[i].action]]

C24_Witness ==
    /\ ahLast.call = "handleAll"
    /\ Len(ahLast.records) = 2
    /\ ahLast.records[1].action = "notify" /\ ahLast.table["notify"] = "boom"
    /\ ahLast.records[2].action = "manual" /\ ahLast.table["manual"] = "ok"
    /\ Len(ahLast.ran) = 2
    /\ ahLast.ran[2].outcome = "ok"

RECURSIVE LastActionReset(_)
\* The position of the last resetStats in the ActionHandler's log, 0 if none.
LastActionReset(log) ==
    IF log = <<>> THEN 0
    ELSE IF log[Len(log)].action = "resetStats" THEN Len(log)
    ELSE LastActionReset(SubSeq(log, 1, Len(log) - 1))

\* The handler executions since the last resetStats.
RanSinceReset == SubSeq(ahLog, LastActionReset(ahLog) + 1, Len(ahLog))

\* C25: total and byAction count the handler executions that completed since
\* the last resetStats, failed those that threw, total is the sum of byAction,
\* calls without handler count nowhere, and resetStats zeroes all three.
C25_ActionStats ==
    /\ ahStats.total =
          Cardinality({i \in 1..Len(RanSinceReset) : RanSinceReset[i].outcome = "ok"})
    /\ \A a \in ActionTypes :
          ahStats.byAction[a] =
              Cardinality({i \in 1..Len(RanSinceReset) :
                              RanSinceReset[i].outcome = "ok" /\ RanSinceReset[i].action = a})
    /\ ahStats.failed =
          Cardinality({i \in 1..Len(RanSinceReset) : RanSinceReset[i].outcome = "boom"})
    /\ ahStats.total = SumOver(ahStats.byAction, ActionTypes)
    /\ ahLast.call = "resetStats" => ahStats = ZeroActionStats
    /\ (ahLast.call \in {"handle", "handleAll"} /\ ahLast.ran = <<>> /\ ahLog = <<>>) =>
          ahStats = ZeroActionStats

C25_Witness ==
    /\ Len(ahLog) = 3
    /\ ahLog[1].outcome = "ok"
    /\ ahLog[2].action = "resetStats"
    /\ ahLog[3].outcome = "boom"
    /\ ahStats.total = 0
    /\ ahStats.failed = 1

\* C26: register throws for a handler that is not a function and leaves the
\* registry as it was.
C26_RegisterRejects ==
    (ahLast.call = "register" /\ ahLast.arg = "notFunction") =>
        /\ ahLast.ret = "threw"
        /\ handlers = ahLast.table

C26_Witness ==
    /\ ahLast.call = "register"
    /\ ahLast.arg = "notFunction"
    /\ ahLast.name = "notify"
    /\ ahLast.table["notify"] = "ok"
    /\ handlers["notify"] = "ok"
    /\ ahLast.ret = "threw"

\* C27: the stages of a run are those of the pipeline when the run began: a
\* stage added by use() while the run is in progress is not invoked in it.
C27_StagesFixed ==
    \A k \in 1..Len(invoked) : invoked[k].pos <= Len(runStages)

\* C28: the stage invocations of a run never go back: the attempts of a stage
\* follow each other, and the next stage is first invoked only after the
\* stage returned without stop, was skipped or fell back.
C28_OneSlotPerStage ==
    /\ invoked # <<>> => invoked[1].pos = 1
    /\ \A k \in 1..(Len(invoked) - 1) :
          LET a == invoked[k]
              b == invoked[k + 1]
          IN  /\ b.pos \in {a.pos, a.pos + 1}
              /\ b.pos = a.pos => (a.out = "threw" /\ a.rec = "retry")
              /\ b.pos = a.pos + 1 =>
                    \/ a.out = "returned" /\ ~a.sig.stop
                    \/ a.out = "threw" /\ a.rec \in {"skip", "fallback", "default"}

C28_Witness ==
    /\ pc = "done"
    /\ Len(invoked) = 4
    /\ invoked[1].pos = 1 /\ invoked[1].rec = "retry"
    /\ invoked[2].pos = 1 /\ invoked[2].rec = "retry"
    /\ invoked[3].pos = 1 /\ invoked[3].out = "returned"
    /\ invoked[4].pos = 2

\* The failed attempts that handleStageError answered with retry, in order.
Retried ==
    SelectSeq([k \in 1..Len(invoked) |-> k],
              LAMBDA k : /\ invoked[k].out = "threw"
                         /\ invoked[k].rec = "retry"
                         /\ StrategyOf(invoked[k].pos).strategy = "retry")

\* After failed attempt k the stage is invoked again.
Reinvoked(k) ==
    IF k < Len(invoked) THEN invoked[k + 1].pos = invoked[k].pos ELSE pc = "try"

\* The waits are those of the failed attempts that are retried, in order.
WaitsOnlyBetweenAttempts ==
    /\ Len(waited) = Len(Retried)
    /\ \A j \in 1..Len(Retried) :
          /\ Reinvoked(Retried[j])
          /\ waited[j].stage = StageName(stages[invoked[Retried[j]].pos])
          /\ waited[j].attempt = AttemptNo(invoked, Retried[j])

\* C29: for a retry strategy with backoff base b, every configured value of b
\* and 0 too, the delay waited after failed attempt n is b * n, and no delay
\* is waited after the last failed attempt.
C29_BackoffDelay ==
    /\ WaitsOnlyBetweenAttempts
    /\ \A j \in 1..Len(waited) :
          backoffMs[waited[j].stage] # NoOpt =>
              waited[j].ms = backoffMs[waited[j].stage] * waited[j].attempt

\* The part of C29 the code keeps: the same for a base of at least 1 ms, and
\* the default base when none is configured.
C29_PositiveBase ==
    /\ WaitsOnlyBetweenAttempts
    /\ \A j \in 1..Len(waited) :
          LET b == backoffMs[waited[j].stage] IN
          /\ b >= 1 => waited[j].ms = b * waited[j].attempt
          /\ b = NoOpt => waited[j].ms = DefaultBackoffMs * waited[j].attempt

\* The invocations of log are those of a run alone: the first stage first,
\* a stage again after a failed attempt that is retried, the next stage
\* otherwise.
InvokedAsAlone(log) ==
    /\ log # <<>> => log[1].pos = 1
    /\ \A k \in 1..(Len(log) - 1) :
          log[k + 1].pos =
              IF /\ log[k].out = "threw"
                 /\ log[k].rec = "retry"
                 /\ AttemptNo(log, k) < MaxAttemptsOf(StageName(stages[log[k].pos]))
              THEN log[k].pos
              ELSE log[k].pos + 1

\* A run that has returned made the invocations and returned the result of
\* the run alone on the same stage outcomes.
AsAlone(run) ==
    run.pc = "done" =>
        /\ run.result = Replay(run.invoked, Len(run.invoked))
        /\ RunsOn(run.invoked, run.result)
        /\ InvokedAsAlone(run.invoked)
        /\ run.msgActions = run.result.actions

\* C30: two runs of process() on one pipeline for different events, however
\* interleaved, each make the stage invocations and return the result that
\* their event gives when processed alone: the attempt counter, the result
\* and the action list are per run.
C30_RunsIndependent == AsAlone(Running) /\ AsAlone(other)

\* Both runs failed the first attempt of the one stage before either failed
\* the second, and both have returned.
C30_Witness ==
    /\ Len(stages) = 1
    /\ pc = "done"
    /\ other.pc = "done"
    /\ Len(waited) = 4
    /\ [j \in 1..4 |-> waited[j].attempt] = <<1, 1, 2, 2>>
    /\ Len(invoked) = 3
    /\ Len(other.invoked) = 3
    /\ result # other.result

\* C31: insert, update and delete on a table leave every cached entry of
\* every other table in the cache, whether or not the written table had
\* cached entries.
C31_ScopedInvalidation ==
    cacheLast.kind \in WriteKinds =>
        \A k \in cacheLast.before :
            k[1] \in Tables \ {cacheLast.table} => k \in cacheLast.after

\* C32: once a write to a table has returned, the next findAll and the next
\* findById of that table are answered by the database, whatever reads and
\* writes went before or overlapped.
C32_ReadAfterWrite ==
    (cacheLast.kind \in ReadKinds /\ cacheLast.wasFresh) => ~cacheLast.hit

\* C33: when transaction() returns, the cache holds no entry, no table has
\* tracked keys and the callback's result is returned; a read repeated after
\* a read that cached its result, no write between them, is a cache hit.
C33_TransactionClears ==
    /\ cacheLast.kind = "transaction" =>
          /\ cacheLast.after = {}
          /\ cacheLast.tracked = NoTableKeys
          /\ cacheLast.ret = cacheLast.arg
    /\ (cacheLast.kind \in ReadKinds /\ cacheLast.wasPopulated) => cacheLast.hit

\* C34: once every addBot, updateBot and removeBot call has returned, each
\* bot that was started and is not the one registered for its clientId has
\* been stopped; and a bot is started for a clientId only after the bots
\* started before it for that clientId were stopped.
C34_OneLiveBot ==
    /\ (\A c \in Callers : mgrCalls[c].pc = "idle") =>
          \A i \in DOMAIN instances :
              (instances[i].started /\ bots[instances[i].client].bot # i)
                  => instances[i].stopped
    /\ \A i, j \in DOMAIN instances :
          (i < j /\ instances[i].client = instances[j].client) => instances[i].stopped

\* C35: with the action processor as the last stage, when the run has
\* returned every action the earlier stages declared or added was handed to
\* the ActionHandler once: the handler executions are those of handleAll
\* on message._actions, whatever the earlier stages returned.
C35_ProcessorDispatchesAll ==
    pc = "done" => dispatched = Executions(handlers, msgActions)

\* The part of C35 the code keeps: the same for a run that no earlier stage
\* ended.
C35_WhenReached ==
    (pc = "done" /\ ~result.stop) => dispatched = Executions(handlers, msgActions)

\* The larger of two numbers.
Max(a, b) == IF a >= b THEN a ELSE b

\* No stage has been invoked more often than max(1, maxAttempts).
InvocationsBounded ==
    \A i \in DOMAIN stages : Calls(i) <= Max(1, MaxAttemptsOf(StageName(stages[i])))

\* process() has returned or thrown.
RunOver == pc \in {"done", "threw"}

ErrorUnset == result.error = NoError /\ result.errorStage = NoStage

\* The attempt recorded as entry k threw and was retried.
RetriedAt(k) ==
    /\ invoked[k].out = "threw"
    /\ k < Len(invoked)
    /\ invoked[k + 1].pos = invoked[k].pos

\* C37: in a returned result, error is set only with stop = true, and then
\* errorStage names the last stage invoked; a run ended by a Stop signal, a
\* run whose errors were all skipped or answered with fallback, and a run
\* whose retried stage succeeded in the end return with error and errorStage
\* unset.
C37_ErrorOnlyWithStop ==
    pc = "done" =>
        /\ result.error # NoError =>
              /\ result.stop
              /\ invoked # <<>>
              /\ result.errorStage = StageName(stages[invoked[Len(invoked)].pos])
        /\ result.errorStage # NoStage => result.error # NoError
        /\ (invoked # <<>> /\ invoked[Len(invoked)].out = "returned"
               /\ invoked[Len(invoked)].sig.stop) => ErrorUnset
        /\ (\A k \in 1..Len(invoked) :
               invoked[k].out = "threw" => invoked[k].rec \in {"skip", "fallback", "default"})
              => ErrorUnset
        /\ (\A k \in 1..Len(invoked) :
               invoked[k].out = "threw" =>
                   (RetriedAt(k) \/ invoked[k].rec \in {"skip", "fallback", "default"}))
              => ErrorUnset

\* The first of two stages threw and the run was stopped there with the
\* error; another run retried a stage that then returned.
C37_Witness ==
    /\ pc = "done"
    /\ Len(stages) = 2
    /\ stages[2] = ""
    /\ Len(invoked) = 2
    /\ invoked[1].out = "threw" /\ invoked[1].rec = "retry"
    /\ invoked[2].out = "threw" /\ invoked[2].pos = 1
    /\ result.stop
    /\ result.error = invoked[2].err
    /\ result.errorStage = "check"

\* The attempts of the stage at position i that returned a declared action.
DeclaredAt(i) ==
    {k \in EntriesOf(i) : invoked[k].out = "returned" /\ invoked[k].sig.action # "none"}

\* C38: each stage contributes at most one action record per run, also when
\* it is retried: an attempt that throws appends nothing, so result.actions
\* never holds more records than there are stages, and a stage that returns
\* both an action and stop: true has its record in result.actions, as the last
\* one, when the run halts.
C38_OneRecordPerStage ==
    /\ Len(result.actions) <= Len(stages)
    /\ Len(result.actions) = Len(Declared)
    /\ \A i \in 1..Len(stages) :
          /\ Cardinality(DeclaredAt(i)) <= 1
          /\ Cardinality({j \in 1..Len(result.actions) :
                             result.actions[j].stage = StageName(stages[i])})
                <= Cardinality({h \in 1..Len(stages) :
                                   StageName(stages[h]) = StageName(stages[i])})
    /\ \A k \in 1..Len(invoked) :
          (invoked[k].out = "returned" /\ invoked[k].sig.action # "none"
              /\ invoked[k].sig.stop /\ pc = "done") =>
              /\ result.stop
              /\ result.actions # <<>>
              /\ result.actions[Len(result.actions)] =
                     [action |-> invoked[k].sig.action, data |-> invoked[k].sig.data,
                      stage |-> StageName(stages[invoked[k].pos])]

\* A stage threw, was retried, and then returned an action together with
\* stop: true; the run ended with that one record.
C38_Witness ==
    /\ pc = "done"
    /\ Len(stages) = 2
    /\ Len(invoked) = 2
    /\ invoked[1].out = "threw" /\ invoked[1].rec = "retry" /\ invoked[1].pos = 1
    /\ invoked[2].out = "returned" /\ invoked[2].pos = 1
    /\ invoked[2].sig.action # "none" /\ invoked[2].sig.stop
    /\ Len(result.actions) = 1
    /\ result.actions[1].stage = StageName(stages[1])
    /\ result.stop

\* The number of emissions of hook h for the stage name n.
EmittedFor(h, n) ==
    Cardinality({k \in 1..Len(emitted) : emitted[k].hook = h /\ emitted[k].stage = n})

\* The attempts of the stages named n, and those of them that threw.
AttemptsOf(n) == {k \in 1..Len(invoked) : StageName(stages[invoked[k].pos]) = n}
ThrownBy(n) == {k \in AttemptsOf(n) : invoked[k].out = "threw"}

\* C39: with a HookManager and an ErrorHandler attached, before:stage is
\* emitted for a stage once per attempt, error:stage once per attempt that
\* threw, and stats.byStage of that stage name has grown by one for each of
\* those attempts whose error has been given to handle(): by all of them when
\* the run is over.
C39_EmissionsMatchAttempts ==
    (hooks /\ errorHandler) =>
        \A n \in StageNames :
            /\ EmittedFor("before:stage", n) = Cardinality(AttemptsOf(n))
            /\ EmittedFor("error:stage", n) = Cardinality(ThrownBy(n))
            /\ errorStats.byStage[n] =
                  Cardinality({k \in ThrownBy(n) : invoked[k].rec # "pending"})
            /\ pc \in {"done", "threw"} =>
                  errorStats.byStage[n] = EmittedFor("error:stage", n)

\* A run over two stages with hooks and error handler: the first stage threw
\* twice and then returned, the second threw once.
C39_Witness ==
    /\ hooks /\ errorHandler
    /\ pc = "done"
    /\ Len(stages) = 2
    /\ stages[1] # stages[2]
    /\ Len(invoked) = 4
    /\ invoked[1].out = "threw" /\ invoked[2].out = "threw"
    /\ invoked[3].out = "returned" /\ invoked[3].pos = 1
    /\ invoked[4].out = "threw" /\ invoked[4].pos = 2
    /\ EmittedFor("before:stage", StageName(stages[1])) = 3
    /\ EmittedFor("error:stage", StageName(stages[1])) = 2
    /\ errorStats.byStage[StageName(stages[1])] = 2
    /\ errorStats.byStage[StageName(stages[2])] = 1

====
